---- MODULE Spec2Model ----
(***************************************************************************)
(* A model of the vulnerability verifier (src/vuln_verifier) and of the    *)
(* IP masking tool (src/Useful Scripts/IP-and-Subnet-Masking-Tool).        *)
(*                                                                         *)
(* Python strings are sequences of one-character strings, so that          *)
(* lower(), split(), replace() and the substring test "a in b" are         *)
(* computed as Python computes them.  A TLA+ string stands only for a      *)
(* value the code compares by equality (a status, a dictionary key).       *)
(***************************************************************************)
EXTENDS Integers, Sequences, FiniteSets, TLC

VARIABLES
    ip_str,          \* masking tool: the line handed to mask_ip_address
    masked,          \* masking tool: what mask_ip_address returned for it
    mpc,             \* masking tool: "input" while the line is read, then "masked"
    host,            \* verifier: the command line and the machine main runs on
    disk,            \* verifier: the output tree, folder -> file name -> content
    tools,           \* verifier: what install_tools did
    csv_file,        \* verifier: the scan export, [fieldnames, rows]
    args,            \* verifier: the parsed command line
    pc,              \* verifier: where main is
    vulnerabilities, \* verifier: the findings main works on
    results,         \* verifier: main's list of (status, poc_path)
    i,               \* verifier: how many turns the verification loop has made
    last,            \* verifier: the latest turn: the scanner, the finding, what happened
    report,          \* verifier: what generate_report was called with and wrote
    splitter,        \* scope splitter: the lists, the target files, the scans
    runner,          \* _run_command: where one call is and the processes it started
    dl,              \* download_file: where one call is, its attempts and waits
    validator        \* credential validator: one call of validate_with_single_credentials

maskVars == <<ip_str, masked, mpc>>

mainVars == <<host, disk, tools, csv_file, args, pc, vulnerabilities, results, i, last, report>>

vars == <<ip_str, masked, mpc, host, disk, tools, csv_file, args, pc, vulnerabilities, results, i,
          last, report, splitter, runner, dl, validator>>

----------------------------------------------------------------------------
(* Python string primitives *)

UpperLetters == <<"A","B","C","D","E","F","G","H","I","J","K","L","M",
                  "N","O","P","Q","R","S","T","U","V","W","X","Y","Z">>

LowerLetters == <<"a","b","c","d","e","f","g","h","i","j","k","l","m",
                  "n","o","p","q","r","s","t","u","v","w","x","y","z">>

\* str.lower() on one character
LowerChar(c) ==
    IF \E k \in 1..Len(UpperLetters) : UpperLetters[k] = c
    THEN LowerLetters[CHOOSE k \in 1..Len(UpperLetters) : UpperLetters[k] = c]
    ELSE c

\* str.lower()
Lower(s) == [k \in 1..Len(s) |-> LowerChar(s[k])]

\* sub in s
Contains(s, sub) ==
    \E k \in 0..(Len(s) - Len(sub)) :
        \A j \in 1..Len(sub) : s[k + j] = sub[j]

\* s.replace(a, b) for one-character a and b
ReplaceChar(s, a, b) == [k \in 1..Len(s) |-> IF s[k] = a THEN b ELSE s[k]]

\* index of the first occurrence of the character c in s, 0 when there is none
FirstIndex(s, c) ==
    IF \E k \in 1..Len(s) : s[k] = c
    THEN CHOOSE k \in 1..Len(s) : s[k] = c /\ \A j \in 1..(k - 1) : s[j] # c
    ELSE 0

\* s.split(c) for a one-character separator: Python keeps empty fields
RECURSIVE Split(_, _)
Split(s, c) ==
    LET k == FirstIndex(s, c)
    IN  IF k = 0 THEN <<s>>
        ELSE <<SubSeq(s, 1, k - 1)>> \o Split(SubSeq(s, k + 1, Len(s)), c)

\* s.endswith(suffix)
EndsWith(s, suffix) ==
    /\ Len(s) >= Len(suffix)
    /\ SubSeq(s, Len(s) - Len(suffix) + 1, Len(s)) = suffix

\* s.split(c, 1), for an s that holds c
SplitOnce(s, c) ==
    LET k == FirstIndex(s, c)
    IN  <<SubSeq(s, 1, k - 1), SubSeq(s, k + 1, Len(s))>>

----------------------------------------------------------------------------
(* Python values *)

\* Python's None; no string, since a string is a sequence of characters
None == <<"None">>

\* bool(v) for a value that is None or a string
Truthy(v) == v # None /\ v # <<>>

\* d.get(key, default)
DictGet(d, key, default) == IF key \in DOMAIN d THEN d[key] ELSE default

\* open(name, "w") and write: file name := content, in one directory
PutFile(files, name, content) ==
    [n \in DOMAIN files \cup {name} |-> IF n = name THEN content ELSE files[n]]

\* a directory without files
NoFiles == [n \in {} |-> <<>>]

----------------------------------------------------------------------------
(* Useful Scripts/NMAP parts scan/scope-splitter.py *)

\* the most IP addresses and the most subnets of a scope file
MaxSplitIps == 2

MaxSplitSubnets == 1

\* str(n) inside an f-string, for n >= 0
RECURSIVE Str(_)
Str(n) ==
    LET digits == <<"0","1","2","3","4","5","6","7","8","9">>
    IN  IF n < 10 THEN <<digits[n + 1]>>
        ELSE Str(n \div 10) \o <<digits[(n % 10) + 1]>>

\* the addresses and the subnets a scope file can hold
ScopeIps == {<<"1","0",".","0",".","0",".">> \o Str(k) : k \in 1..MaxSplitIps}

ScopeSubnets == {<<"1","0",".">> \o Str(k) \o <<".","0",".","0","/","1","6">> : k \in 1..MaxSplitSubnets}

\* validate_ip for the dotted IPv4 forms: ipaddress.ip_address takes four
\* decimal octets of 0..255 without leading zeros, ipaddress.ip_network with
\* strict=False such an address followed by "/" and a prefix length of 0..32
validate_ip(ip) ==
    LET IPv4(a) == LET parts == Split(a, ".")
                   IN  /\ Len(parts) = 4
                       /\ \A k \in 1..4 : \E n \in 0..255 : Str(n) = parts[k]
    IN  IF \E k \in 1..Len(ip) : ip[k] = "/"
        THEN LET parts == Split(ip, "/")
             IN  /\ Len(parts) = 2
                 /\ IPv4(parts[1])
                 /\ \E n \in 0..32 : Str(n) = parts[2]
        ELSE IPv4(ip)

\* parse_scope_file: the lines are stripped (of blanks, the only white space
\* the scope files here hold), empty ones dropped, invalid ones skipped with a
\* warning; the rest goes to the set of subnets when it holds "/" and to the
\* set of addresses when it does not
parse_scope_file(scope) ==
    LET strip(l) == LET keep == {k \in 1..Len(l) : l[k] # " "}
                    IN  IF keep = {} THEN <<>>
                        ELSE SubSeq(l, CHOOSE k \in keep : \A j \in keep : k <= j,
                                       CHOOSE k \in keep : \A j \in keep : j <= k)
        lines == {strip(scope[k]) : k \in 1..Len(scope)} \ {<<>>}
        valid == {l \in lines : validate_ip(l)}
    IN  [ips |-> {l \in valid : \A k \in 1..Len(l) : l[k] # "/"},
         subnets |-> {l \in valid : \E k \in 1..Len(l) : l[k] = "/"}]

\* list(s) for a set s: its elements, each once, in an order the code does not choose
ListsOf(S) ==
    {l \in UNION {[1..n -> S] : n \in 0..Cardinality(S)} :
        \A a, b \in 1..Len(l) : a # b => l[a] # l[b]}

\* the values of the config the model tries; the defaults are 20 and 3
PerFileChoices == {1, 2}

\* config['output_dir']
output_dir == <<"o","u","t","p","u","t">>

\* the mutant of TargetName: the kind of the targets is left out of the name
TargetNameNoKind(kind, n) ==
    output_dir \o <<"/">> \o <<"s","c","o","p","e">> \o <<"_">> \o Str(n) \o <<".","t","x","t">>

\* f"{output_dir}/scope_{n}.txt" and f"{output_dir}/subnet_{n}.txt"
TargetName(kind, n) ==
    output_dir \o <<"/">> \o kind \o <<"_">> \o Str(n) \o <<".","t","x","t">>

\* a slip: the chunk is taken one entry too long, list[i:i + per_file + 1]
SplitListLongChunk(list, per_file, kind) ==
    LET starts == {k \in 0..(Len(list) - 1) : k % per_file = 0}
    IN  [n \in 1..Cardinality(starts) |->
            LET k == (n - 1) * per_file
                end == IF k + per_file + 1 < Len(list) THEN k + per_file + 1 ELSE Len(list)
            IN  [name |-> TargetName(kind, (k \div per_file) + 1),
                 lines |-> SubSeq(list, k + 1, end)]]

\* one loop of split_targets: for i in range(0, len(list), per_file), the file
\* numbered i // per_file + 1 gets list[i:i + per_file]
SplitList(list, per_file, kind) ==
    LET starts == {k \in 0..(Len(list) - 1) : k % per_file = 0}
    IN  [n \in 1..Cardinality(starts) |->
            LET k == (n - 1) * per_file
                end == IF k + per_file < Len(list) THEN k + per_file ELSE Len(list)
            IN  [name |-> TargetName(kind, (k \div per_file) + 1),
                 lines |-> SubSeq(list, k + 1, end)]]

\* the files split_targets opens for writing, in order: name and lines
split_targets(ips, subnets, config) ==
    SplitList(ips, config.ips_per_file, <<"s","c","o","p","e">>)
        \o SplitList(subnets, config.subnets_per_file, <<"s","u","b","n","e","t">>)

\* the output directory after the files were written one after the other
RECURSIVE WriteTargets(_, _)
WriteTargets(files, written) ==
    IF written = <<>> THEN files
    ELSE WriteTargets(PutFile(files, Head(written).name, Head(written).lines), Tail(written))

\* index of the last occurrence of the character c in s, 0 when there is none
LastIndex(s, c) ==
    IF \E k \in 1..Len(s) : s[k] = c
    THEN CHOOSE k \in 1..Len(s) : s[k] = c /\ \A j \in (k + 1)..Len(s) : s[j] # c
    ELSE 0

\* Path(p).stem: the last component of the path without its last suffix
PathStem(p) ==
    LET name == SubSeq(p, LastIndex(p, "/") + 1, Len(p))
        dot == LastIndex(name, ".")
    IN  IF dot > 1 THEN SubSeq(name, 1, dot - 1) ELSE name

\* run_scan: f"{output_dir}/scan_{Path(target_file).stem}"
output_base(target_file) ==
    output_dir \o <<"/","s","c","a","n","_">> \o PathStem(target_file)

\* the files nmap writes for -oA base
NmapOutputs(base) ==
    {base \o ext : ext \in {<<".","n","m","a","p">>, <<".","x","m","l">>,
                            <<".","g","n","m","a","p">>}}

\* the splitter before main runs
SplitIdle ==
    splitter = [pc |-> "idle", config |-> [ips_per_file |-> 1, subnets_per_file |-> 1],
                scope |-> <<>>, ips |-> <<>>, subnets |-> <<>>, target_files |-> <<>>,
                files |-> NoFiles, scans |-> <<>>, writers |-> NoFiles]

\* main after parse_scope_file: the splitter holds the targets of some scope
\* file, each set of them as the list split_targets makes of it.  The scope
\* files tried hold some of the addresses, then nothing or an entry that is
\* no address, an empty line and the first address (once more) with a blank
\* behind it, then some of the subnets.
ScopeParsed ==
    LET ExtraLines ==
            {<<>>,
             << <<"1","0",".","0",".","0",".","2","5","6">>, <<" ">>,
                <<"1","0",".","0",".","0",".","1"," ">> >>}
        ScopeFiles ==
            {SelectSeq([k \in 1..MaxSplitIps |-> <<"1","0",".","0",".","0",".">> \o Str(k)],
                       LAMBDA x : x \in I)
                \o extra
                \o SelectSeq([k \in 1..MaxSplitSubnets |->
                                 <<"1","0",".">> \o Str(k) \o <<".","0",".","0","/","1","6">>],
                             LAMBDA x : x \in S) :
                I \in SUBSET ScopeIps, S \in SUBSET ScopeSubnets, extra \in ExtraLines}
    IN  \E scope \in ScopeFiles, a \in PerFileChoices, b \in PerFileChoices :
          \E ips \in ListsOf(parse_scope_file(scope).ips),
             subnets \in ListsOf(parse_scope_file(scope).subnets) :
            /\ Len(ips) = Cardinality(parse_scope_file(scope).ips)
            /\ Len(subnets) = Cardinality(parse_scope_file(scope).subnets)
            /\ splitter = [pc |-> "split",
                           config |-> [ips_per_file |-> a, subnets_per_file |-> b],
                           scope |-> scope, ips |-> ips, subnets |-> subnets,
                           target_files |-> <<>>, files |-> NoFiles, scans |-> <<>>,
                           writers |-> NoFiles]

\* main: target_files = self.split_targets(ips, subnets); one coroutine per file
SplitTargets ==
    /\ splitter.pc = "split"
    /\ LET written == split_targets(splitter.ips, splitter.subnets, splitter.config)
       IN  splitter' = [splitter EXCEPT
               !.pc = "scan",
               !.target_files = [n \in 1..Len(written) |-> written[n].name],
               !.files = WriteTargets(NoFiles, written),
               !.scans = [n \in 1..Len(written) |-> "new"]]
    /\ UNCHANGED <<maskVars, mainVars, runner, dl, validator>>

\* run_scan up to the start of nmap, which opens its output files; a process
\* that cannot be started raises, and run_scan logs the error and returns
ScanStart(t) ==
    /\ splitter.pc = "scan"
    /\ splitter.scans[t] = "new"
    /\ \E started \in BOOLEAN :
        IF started
        THEN LET outs == NmapOutputs(output_base(splitter.target_files[t]))
             IN  splitter' = [splitter EXCEPT
                     !.scans[t] = "running",
                     !.writers = [f \in DOMAIN splitter.writers \cup outs |->
                                     (IF f \in DOMAIN splitter.writers
                                      THEN splitter.writers[f] ELSE {})
                                     \cup (IF f \in outs THEN {t} ELSE {})]]
        ELSE splitter' = [splitter EXCEPT !.scans[t] = "error"]
    /\ UNCHANGED <<maskVars, mainVars, runner, dl, validator>>

\* run_scan after process.communicate(): the return code decides the log line
ScanExit(t) ==
    /\ splitter.pc = "scan"
    /\ splitter.scans[t] = "running"
    /\ \E returncode \in {0, 1} :
        splitter' = [splitter EXCEPT !.scans[t] = IF returncode = 0 THEN "done" ELSE "failed"]
    /\ UNCHANGED <<maskVars, mainVars, runner, dl, validator>>

\* a slip: the wait ends with the first scan that failed
ScanCompletedOnFirstFailure ==
    /\ splitter.pc = "scan"
    /\ \/ \A t \in 1..Len(splitter.scans) : splitter.scans[t] \in {"done", "failed", "error"}
       \/ \E t \in 1..Len(splitter.scans) : splitter.scans[t] \in {"failed", "error"}
    /\ splitter' = [splitter EXCEPT !.pc = "completed"]
    /\ UNCHANGED <<maskVars, mainVars, runner, dl, validator>>

\* main after asyncio.gather returned: every run_scan has returned
ScanCompleted ==
    /\ splitter.pc = "scan"
    /\ \A t \in 1..Len(splitter.scans) : splitter.scans[t] \in {"done", "failed", "error"}
    /\ splitter' = [splitter EXCEPT !.pc = "completed"]
    /\ UNCHANGED <<maskVars, mainVars, runner, dl, validator>>

----------------------------------------------------------------------------
(* scanners/base_scanner.py and utils/helpers.py: one call of _run_command, *)
(* step by step, with the processes it starts                              *)

\* the first word of the command lines the verifiers build; "echo" is that
\* of the Telnet verifier's `echo QUIT | telnet ...`
RunTools == {"nmap", "ike-scan.exe", "sslscan.exe", "echo"}

\* tool_path_config.json: not there, there with the path of the tool, or
\* there without a usable path for it
PathConfigs == {"absent", "complete", "without tool"}

\* how the external command of _run_command can end: it exits with 0, exits
\* non-zero (CalledProcessError), runs into the timeout (TimeoutExpired), or
\* cannot be started (any other exception of the try block)
RunOutcomes == {"ok", "nonzero", "timeout", "nostart"}

RunIdle ==
    runner = [pc |-> "idle", tool |-> "-", config |-> "absent", which |-> FALSE,
              log |-> <<>>, result |-> "none", launched |-> FALSE]

\* a verifier calls _run_command with the command line it built
InitRun ==
    \E tool \in RunTools, config \in PathConfigs, which \in BOOLEAN :
        runner = [pc |-> "tool_path", tool |-> tool, config |-> config, which |-> which,
                  log |-> <<>>, result |-> "none", launched |-> FALSE]

\* lines 43-48, get_tool_path(tool): the path of the configuration, or else
\* the answer of a `which` (`where`) process
GetToolPath ==
    /\ runner.pc = "tool_path"
    /\ runner' = [runner EXCEPT
           !.log = IF runner.config = "complete" THEN @ ELSE Append(@, "which"),
           !.pc = IF runner.tool = "nmap" THEN "script" ELSE "run"]
    /\ UNCHANGED <<maskVars, mainVars, splitter, dl, validator>>

\* lines 51-58, check_nmap_script_exists for an nmap command with --script:
\* the lists of the configuration when the file is there, or else
\* get_tool_path('nmap') and, when nmap was found, `nmap --script-help`
CheckScript ==
    /\ runner.pc = "script"
    /\ runner' = [runner EXCEPT
           !.log = IF runner.config # "absent" THEN @
                   ELSE IF runner.which THEN @ \o <<"which", "script-help">>
                   ELSE Append(@, "which"),
           !.pc = "run"]
    /\ UNCHANGED <<maskVars, mainVars, splitter, dl, validator>>

\* a slip: a command that timed out is launched a second time
RunToolRetry ==
    /\ runner.pc = "run"
    /\ \E outcome \in RunOutcomes, launched \in BOOLEAN :
         /\ outcome # "nostart" => launched
         /\ runner' = [runner EXCEPT
                !.log = IF launched THEN Append(@, "tool") ELSE @,
                !.result = outcome,
                !.launched = launched,
                !.pc = IF outcome = "ok" THEN "returned"
                       ELSE IF outcome = "timeout" /\ runner.result = "none" THEN "run"
                       ELSE "raised"]
    /\ UNCHANGED <<maskVars, mainVars, splitter, dl, validator>>

\* lines 62-85: the output file is opened and subprocess.run launches the
\* command, unless the file cannot be opened; lines 86-116: every failure
\* leaves as ScannerError
RunTool ==
    /\ runner.pc = "run"
    /\ \E outcome \in RunOutcomes, launched \in BOOLEAN :
         /\ outcome # "nostart" => launched
         /\ runner' = [runner EXCEPT
                !.log = IF launched THEN Append(@, "tool") ELSE @,
                !.result = outcome,
                !.launched = launched,
                !.pc = IF outcome = "ok" THEN "returned" ELSE "raised"]
    /\ UNCHANGED <<maskVars, mainVars, splitter, dl, validator>>

\* the except ScannerError block of verify: manual_steps.txt is written and
\* "Manual Check Required" returned
HandleScannerError ==
    /\ runner.pc = "raised"
    /\ runner' = [runner EXCEPT !.pc = "manual"]
    /\ UNCHANGED <<maskVars, mainVars, splitter, dl, validator>>

----------------------------------------------------------------------------
(* core/installer.py: download_file, step by step *)

\* the most attempts a call is allowed in the model
MaxRetries == 3

\* MAX_RETRIES, line 16: the default of retries
MAX_RETRIES == 3

\* how an attempt can fail: the exceptions of requests.get, raise_for_status
\* and iter_content, which are RequestExceptions, and an OSError of mkdir,
\* open or write
RequestExceptions == {"Timeout", "ConnectionError", "HTTPError"}

DownloadIdle ==
    dl = [pc |-> "idle", retries |-> MAX_RETRIES, attempt |-> 0, outcomes |-> <<>>,
          sleeps |-> <<>>, downloaded |-> FALSE]

\* download_file(url, filepath, retries) is called
InitDownload ==
    \E retries \in 0..MaxRetries :
        dl = [pc |-> "loop", retries |-> retries, attempt |-> 0, outcomes |-> <<>>,
              sleeps |-> <<>>, downloaded |-> FALSE]

\* a slip: the wait is computed from the loop variable as it is
wait_time_from_zero(attempt) == 2 * attempt

\* line 39: wait_time = 2 * (attempt + 1)
wait_time(attempt) == 2 * (attempt + 1)

\* line 21, for attempt in range(retries): the next attempt begins, or the
\* loop is over and the function returns
NextAttempt ==
    /\ dl.pc = "loop"
    /\ dl' = [dl EXCEPT !.pc = IF dl.attempt < dl.retries THEN "request" ELSE "returned"]
    /\ UNCHANGED <<maskVars, mainVars, splitter, runner, validator>>

\* lines 22-35: the request and the writing of the file went through
DownloadOk ==
    /\ dl.pc = "request"
    /\ dl' = [dl EXCEPT !.outcomes = Append(@, "ok"), !.downloaded = TRUE, !.pc = "returned"]
    /\ UNCHANGED <<maskVars, mainVars, splitter, runner, validator>>

\* lines 36-43: a RequestException; the wait before the next attempt, or
\* ScannerError after the last
DownloadFailed ==
    /\ dl.pc = "request"
    /\ \E e \in RequestExceptions :
         dl' = [dl EXCEPT
             !.outcomes = Append(@, e),
             !.sleeps = IF dl.attempt < dl.retries - 1
                        THEN Append(@, wait_time(dl.attempt)) ELSE @,
             !.attempt = IF dl.attempt < dl.retries - 1 THEN @ + 1 ELSE @,
             !.pc = IF dl.attempt < dl.retries - 1 THEN "loop" ELSE "ScannerError"]
    /\ UNCHANGED <<maskVars, mainVars, splitter, runner, validator>>

\* lines 28-32: mkdir, open or write raises an OSError, which nothing in
\* download_file catches
WriteFailed ==
    /\ dl.pc = "request"
    /\ dl' = [dl EXCEPT !.outcomes = Append(@, "OSError"), !.pc = "OSError"]
    /\ UNCHANGED <<maskVars, mainVars, splitter, runner, validator>>

----------------------------------------------------------------------------
(* Useful Scripts/Nessus Credentials Validator/nessus-credential_validator.py: *)
(* validate_with_single_credentials, one scope entry at a step                 *)

\* the most entries of the others section of scope.txt
MaxEntries == 2

ValidateIdle ==
    validator = [pc |-> "idle", use_key_auth |-> FALSE, pem_keys |-> FALSE,
                 linux_creds |-> {}, windows_creds |-> {},
                 scopes |-> [linux |-> <<>>, windows |-> <<>>, others |-> <<>>],
                 k |-> 0, csv |-> <<>>, table |-> <<>>,
                 stats |-> [s \in {"linux", "windows", "others"} |->
                              [total |-> 0, successful |-> 0, failed |-> 0]]]

\* main calls validate_with_single_credentials(scopes, credentials,
\* use_key_auth, pem_keys) after initialize_result_file: the lists of
\* parse_scope keep the order and the repetitions of scope.txt, the
\* credentials of a section hold the keys its lines gave, and pem_keys is
\* non-empty exactly in key mode
InitValidate ==
    LET ips == {"10.0.0.5", "10.0.0.6"}
        keys == {"username", "password"}
        lists(n) == UNION {[1..m -> ips] : m \in 0..n}
    IN  \E use_key_auth \in BOOLEAN, linux_creds \in SUBSET keys, windows_creds \in SUBSET keys,
           linux \in lists(1), windows \in lists(1), others \in lists(MaxEntries) :
            validator = [pc |-> "linux", use_key_auth |-> use_key_auth,
                         pem_keys |-> use_key_auth,
                         linux_creds |-> linux_creds, windows_creds |-> windows_creds,
                         scopes |-> [linux |-> linux, windows |-> windows, others |-> others],
                         k |-> 1, csv |-> <<>>, table |-> <<>>,
                         stats |-> [s \in {"linux", "windows", "others"} |->
                                      [total |-> 0, successful |-> 0, failed |-> 0]]]

\* log_result: the row appended to the results CSV
log_result(csv, system_type, ip, protocol, status, details) ==
    Append(csv, [system_type |-> system_type, ip |-> ip, protocol |-> protocol,
                 status |-> status, details |-> details])

\* lines 350-398, one turn of the loop over scopes['linux'] (or its end): the
\* keys or the password are tried when the credentials are there, and a row
\* is logged on every path
ValidateLinux ==
    /\ validator.pc = "linux"
    /\ IF validator.k > Len(validator.scopes.linux)
       THEN validator' = [validator EXCEPT !.pc = "windows", !.k = 1]
       ELSE \E success \in BOOLEAN :
            LET ip == validator.scopes.linux[validator.k]
                tried == IF validator.use_key_auth
                         THEN "username" \in validator.linux_creds /\ validator.pem_keys
                         ELSE {"username", "password"} \subseteq validator.linux_creds
                protocol == IF validator.use_key_auth THEN "SSH-Key" ELSE "SSH"
                status == IF ~tried THEN "Skipped" ELSE IF success THEN "Success" ELSE "Failed"
                details == IF tried THEN "message"
                           ELSE IF validator.use_key_auth THEN "Missing username or PEM keys"
                           ELSE "Missing credentials"
            IN  /\ tried \/ ~success
                /\ validator' = [validator EXCEPT
                       !.k = @ + 1,
                       !.csv = log_result(@, "Linux", ip, protocol, status, details),
                       !.stats.linux = [total |-> @.total + 1,
                                        successful |-> @.successful + IF status = "Success" THEN 1 ELSE 0,
                                        failed |-> @.failed + IF status = "Failed" THEN 1 ELSE 0]]
    /\ UNCHANGED <<maskVars, mainVars, splitter, runner, dl>>

\* lines 407-435, one turn of the loop over scopes['windows'] (or its end):
\* skipped in key mode, else SMB is tried when the credentials are there
ValidateWindows ==
    /\ validator.pc = "windows"
    /\ IF validator.k > Len(validator.scopes.windows)
       THEN validator' = [validator EXCEPT !.pc = "others", !.k = 1]
       ELSE \E success \in BOOLEAN :
            LET ip == validator.scopes.windows[validator.k]
                tried == /\ ~validator.use_key_auth
                         /\ {"username", "password"} \subseteq validator.windows_creds
                status == IF ~tried THEN "Skipped" ELSE IF success THEN "Success" ELSE "Failed"
                details == IF tried THEN "message"
                           ELSE IF validator.use_key_auth
                           THEN "Key auth not supported for Windows"
                           ELSE "Missing credentials"
            IN  /\ tried \/ ~success
                /\ validator' = [validator EXCEPT
                       !.k = @ + 1,
                       !.csv = log_result(@, "Windows", ip, "SMB", status, details),
                       !.stats.windows = [total |-> @.total + 1,
                                          successful |-> @.successful + IF status = "Success" THEN 1 ELSE 0,
                                          failed |-> @.failed + IF status = "Failed" THEN 1 ELSE 0]]
    /\ UNCHANGED <<maskVars, mainVars, splitter, runner, dl>>

\* lines 443-510, one turn of the loop over scopes['others'] (or the return):
\* the Linux credentials are tried first and a success is logged; when that
\* did not validate and passwords are used, the Windows credentials are tried
\* and the outcome is logged; an entry not validated counts as failed and is
\* logged with "No suitable credentials found" unless the last row of
\* results_table['others'] carries its ip.  The table keeps [ip, protocol].
ValidateOthers ==
    /\ validator.pc = "others"
    /\ IF validator.k > Len(validator.scopes.others)
       THEN validator' = [validator EXCEPT !.pc = "returned"]
       ELSE \E ssh_success \in BOOLEAN, smb_success \in BOOLEAN :
            LET ip == validator.scopes.others[validator.k]
                use_key_auth == validator.use_key_auth
                by_key == use_key_auth /\ validator.pem_keys
                ssh_tried == /\ "username" \in validator.linux_creds
                             /\ "password" \in validator.linux_creds \/ use_key_auth
                             /\ by_key \/ "password" \in validator.linux_creds
                ssh_protocol == IF by_key THEN "SSH-Key" ELSE "SSH"
                validated1 == ssh_tried /\ ssh_success
                csv1 == IF validated1
                        THEN log_result(validator.csv, "Others", ip, ssh_protocol, "Success", "message")
                        ELSE validator.csv
                table1 == IF validated1
                          THEN Append(validator.table, <<ip, ssh_protocol>>)
                          ELSE validator.table
                smb_tried == /\ ~validated1
                             /\ ~use_key_auth
                             /\ {"username", "password"} \subseteq validator.windows_creds
                validated == validated1 \/ (smb_tried /\ smb_success)
                csv2 == IF smb_tried
                        THEN log_result(csv1, "Others", ip, "SMB",
                                        IF smb_success THEN "Success" ELSE "Failed", "message")
                        ELSE csv1
                table2 == IF smb_tried
                          THEN Append(table1, <<ip, IF smb_success THEN "SMB" ELSE "Both">>)
                          ELSE table1
                unlogged == /\ ~validated
                            /\ table2 = <<>> \/ table2[Len(table2)][1] # ip
            IN  /\ ssh_tried \/ ~ssh_success
                /\ smb_tried \/ ~smb_success
                /\ validator' = [validator EXCEPT
                       !.k = @ + 1,
                       !.csv = IF unlogged
                               THEN log_result(csv2, "Others", ip, "Both", "Failed",
                                               "No suitable credentials found")
                               ELSE csv2,
                       !.table = IF unlogged THEN Append(table2, <<ip, "Both">>) ELSE table2,
                       !.stats.others = [total |-> @.total + 1,
                                         successful |-> @.successful + IF validated THEN 1 ELSE 0,
                                         failed |-> @.failed + IF validated THEN 0 ELSE 1]]
    /\ UNCHANGED <<maskVars, mainVars, splitter, runner, dl>>

----------------------------------------------------------------------------
(* core/csv_parser.py *)

\* the keys of a finding that come from the CSV
Fields == {"ip", "port", "service", "vulnerability", "plugin_id", "description", "solution"}

\* the mapping get_field_mapping returns for a Nessus standard export
NessusMapping ==
    [ip |-> "Host", port |-> "Port", service |-> "Protocol", vulnerability |-> "Name",
     plugin_id |-> "Plugin ID", description |-> "Description", solution |-> "Solution"]

\* the mapping get_field_mapping returns for the report_4 format
Report4Mapping ==
    [ip |-> "Asset IP Address", port |-> "Service Port", service |-> "Service Protocol",
     vulnerability |-> "Vulnerability Title", plugin_id |-> "Vulnerability CVE IDs",
     description |-> "Vulnerability Description", solution |-> "Vulnerability Solution"]

\* the mapping get_field_mapping returns otherwise
DefaultMapping ==
    [ip |-> "Host", port |-> "Port", service |-> "Service", vulnerability |-> "Vulnerability",
     plugin_id |-> "Plugin ID", description |-> "Description", solution |-> "Solution"]

get_field_mapping(fieldnames) ==
    IF "Plugin ID" \in fieldnames /\ "Host" \in fieldnames THEN NessusMapping
    ELSE IF "Asset IP Address" \in fieldnames /\ "Vulnerability Title" \in fieldnames
         THEN Report4Mapping
         ELSE DefaultMapping

\* config/vuln_mappings.json, as json.load returns it: the categories in the
\* file's order, each with its keywords and, optionally, its known
\* vulnerabilities (name, plugin ids)
mappings ==
    <<[category |-> <<"A","p","a","c","h","e">>,
       keywords |-> << <<"a","p","a","c","h","e">> >>,
       vulnerabilities |->
           << [name |-> <<"D","e","f","a","u","l","t"," ","P","a","g","e">>,
               plugin_ids |-> << <<"1","1","2","1","9">>, <<"7","3","3","4","6">> >>] >>],
      [category |-> <<"S","S","L">>,
       keywords |-> << <<"s","s","l">>, <<"t","l","s">> >>,
       vulnerabilities |->
           << [name |-> <<"W","e","a","k"," ","C","i","p","h","e","r">>,
               plugin_ids |-> << <<"2","6","9","2","8">>, <<"4","2","8","7","3">> >>] >>],
      [category |-> <<"T","e","l","n","e","t">>,
       keywords |-> << <<"t","e","l","n","e","t">> >>,
       vulnerabilities |-> <<>>],
      [category |-> <<"I","K","E">>,
       keywords |-> << <<"i","k","e">> >>,
       vulnerabilities |-> <<>>],
      [category |-> <<"R","D","P">>,
       keywords |-> << <<"r","d","p">> >>,
       vulnerabilities |-> <<>>],
      [category |-> <<"S","M","T","P","2">>,
       keywords |-> << <<"s","t","a","r","t","t","l","s">> >>,
       vulnerabilities |-> <<>>],
      [category |-> <<"T","o","m","c","a","t">>,
       keywords |-> << <<"t","o","m","c","a","t">> >>,
       vulnerabilities |-> <<>>],
      [category |-> <<"G","e","n","e","r","a","l">>,
       keywords |-> << <<"i","c","m","p">> >>,
       vulnerabilities |-> <<>>],
      [category |-> <<"W","e","b">>,
       keywords |-> << <<"h","t","t","p">> >>,
       vulnerabilities |->
           << [name |-> <<"T","R","A","C","E">>,
               plugin_ids |-> << <<"1","1","2","1","3">> >>] >>],
      [category |-> <<"S","N","M","P">>,
       keywords |-> << <<"s","n","m","p">> >>,
       vulnerabilities |-> <<>>]>>

C_General == <<"G","e","n","e","r","a","l">>

\* what categorize_vulnerability gives when `pid in plugin_id` meets a
\* plugin_id that is None
TypeError == <<"TypeError">>

\* a slip: the General category is not passed over
KeywordCategoryWithGeneral(cats, service, vuln_name) ==
    LET hits == {c \in 1..Len(cats) :
                    \E k \in 1..Len(cats[c].keywords) :
                        \/ Contains(service, cats[c].keywords[k])
                        \/ Contains(vuln_name, cats[c].keywords[k])}
    IN  IF hits = {} THEN None
        ELSE cats[CHOOSE c \in hits : \A d \in hits : c <= d].category

\* first loop: the first category, General apart, one of whose keywords is in
\* the service or in the name; None when there is none
RECURSIVE KeywordCategory(_, _, _)
KeywordCategory(cats, service, vuln_name) ==
    IF cats = <<>> THEN None
    ELSE LET data == Head(cats)
         IN  IF /\ data.category # C_General
                /\ \E k \in 1..Len(data.keywords) :
                       \/ Contains(service, data.keywords[k])
                       \/ Contains(vuln_name, data.keywords[k])
             THEN data.category
             ELSE KeywordCategory(Tail(cats), service, vuln_name)

\* the test of line 69 on one mapped vulnerability: "match", "no", or "raise"
\* when the name does not match and `pid in plugin_id` is evaluated on None
MappedTest(entry, vuln_name, plugin_id) ==
    IF Contains(vuln_name, Lower(entry.name)) THEN "match"
    ELSE IF entry.plugin_ids = <<>> THEN "no"
    ELSE IF plugin_id = None THEN "raise"
    ELSE IF \E k \in 1..Len(entry.plugin_ids) : Contains(plugin_id, entry.plugin_ids[k])
         THEN "match"
         ELSE "no"

\* the mapped vulnerabilities of one category, in order
RECURSIVE MappedIn(_, _, _)
MappedIn(entries, vuln_name, plugin_id) ==
    IF entries = <<>> THEN "no"
    ELSE LET t == MappedTest(Head(entries), vuln_name, plugin_id)
         IN  IF t # "no" THEN t ELSE MappedIn(Tail(entries), vuln_name, plugin_id)

\* second loop: the first category, General apart, with a mapped vulnerability
\* that matches by name or by plugin id
RECURSIVE MappedCategory(_, _, _)
MappedCategory(cats, vuln_name, plugin_id) ==
    IF cats = <<>> THEN None
    ELSE LET data == Head(cats)
             t    == IF data.category = C_General THEN "no"
                     ELSE MappedIn(data.vulnerabilities, vuln_name, plugin_id)
         IN  IF t = "match" THEN data.category
             ELSE IF t = "raise" THEN TypeError
             ELSE MappedCategory(Tail(cats), vuln_name, plugin_id)

\* a slip that makes the category depend on a field outside the triple: a
\* description that names a keyword decides the category too
categorize_by_description(vuln, maps) ==
    LET service   == IF Truthy(vuln.service) THEN Lower(vuln.service) ELSE <<>>
        vuln_name == IF Truthy(vuln.vulnerability) THEN Lower(vuln.vulnerability) ELSE <<>>
        descr     == IF Truthy(vuln.description) THEN Lower(vuln.description) ELSE <<>>
        byKeyword == KeywordCategory(maps, service \o <<" ">> \o descr, vuln_name)
        byMapping == MappedCategory(maps, vuln_name, vuln.plugin_id)
    IN  IF byKeyword # None THEN byKeyword
        ELSE IF byMapping # None THEN byMapping
        ELSE C_General

\* the category of a finding, or TypeError
categorize_vulnerability(vuln, maps) ==
    LET service   == IF Truthy(vuln.service) THEN Lower(vuln.service) ELSE <<>>
        vuln_name == IF Truthy(vuln.vulnerability) THEN Lower(vuln.vulnerability) ELSE <<>>
        byKeyword == KeywordCategory(maps, service, vuln_name)
        byMapping == MappedCategory(maps, vuln_name, vuln.plugin_id)
    IN  IF byKeyword # None THEN byKeyword
        ELSE IF byMapping # None THEN byMapping
        ELSE C_General

\* a slip that forgets the port in the test
RowCompleteNoPort(row, field_mapping) ==
    \A key \in {"ip", "vulnerability"} :
        Truthy(DictGet(row, field_mapping[key], <<>>))

\* the test of line 91: the ip, port and vulnerability of the row are all there
RowComplete(row, field_mapping) ==
    \A key \in {"ip", "port", "vulnerability"} :
        Truthy(DictGet(row, field_mapping[key], <<>>))

\* the dictionary of lines 95-103, before its category is set
RowRecord(row, field_mapping) ==
    [f \in Fields |-> DictGet(row, field_mapping[f], <<>>)]

\* a finding: the row's record and its category
WithCategory(rec, category) ==
    [f \in Fields \cup {"category"} |-> IF f = "category" THEN category ELSE rec[f]]

\* the loop of lines 89-106 over the rows: [raised, vulnerabilities]
RECURSIVE ParseRows(_, _, _)
ParseRows(rows, field_mapping, acc) ==
    IF rows = <<>> THEN [raised |-> FALSE, vulnerabilities |-> acc]
    ELSE IF ~RowComplete(Head(rows), field_mapping)
         THEN ParseRows(Tail(rows), field_mapping, acc)
         ELSE LET rec == RowRecord(Head(rows), field_mapping)
                  cat == categorize_vulnerability(rec, mappings)
              IN  IF cat = TypeError
                  THEN [raised |-> TRUE, vulnerabilities |-> <<>>]
                  ELSE ParseRows(Tail(rows), field_mapping,
                                 Append(acc, WithCategory(rec, cat)))

\* parse_nessus_csv: the findings, or raised (ValidationError)
parse_nessus_csv(file) ==
    ParseRows(file.rows, get_field_mapping(file.fieldnames), <<>>)

----------------------------------------------------------------------------
(* core/file_manager.py, scanners/base_scanner.py *)

\* the three statuses of BaseScanner.verify's contract
Statuses == {"Verified", "False Positive", "Manual Check Required"}

\* what the filesystem and the external tool do during one verify() call:
\* whether os.makedirs succeeds, how the command ends, whether the target
\* shows the weakness the tool looks for, whether the tool's output file can
\* be read, whether manual_steps.txt can be written
\* (a choice that cannot matter is left at its default: nothing is run once
\* the folder could not be made, nothing read once the command failed, no note
\* written once it succeeded; the note that cannot be written is tried after
\* a command that exited non-zero)
Environments ==
    {e \in [mkdir : BOOLEAN, run : RunOutcomes, hit : BOOLEAN, readable : BOOLEAN,
            note : BOOLEAN] :
        /\ ~e.mkdir => e.run = "ok" /\ e.readable /\ ~e.hit /\ e.note
        /\ e.run # "ok" => e.readable /\ ~e.hit
        /\ ~e.note => e.run = "nonzero"
        /\ ~e.readable => ~e.hit}

\* what the tool leaves in the file the verifier reads
ToolOutput(tool, hit) ==
    CASE tool = "nmap" ->
           IF hit THEN <<"S","t","a","t","e",":"," ","V","U","L","N","E","R","A","B","L","E">>
           ELSE <<"0"," ","h","o","s","t","s"," ","u","p">>
      [] tool = "sslscan.exe" ->
           IF hit THEN <<"A","c","c","e","p","t","e","d"," ","R","C","4","-","M","D","5">>
           ELSE <<"A","c","c","e","p","t","e","d"," ","A","E","S","2","5","6">>
      [] tool = "ike-scan.exe" ->
           IF hit THEN <<"A","g","g","r","e","s","s","i","v","e"," ","M","o","d","e">>
           ELSE <<"0"," ","r","e","t","u","r","n","e","d">>
      [] tool = "telnet" ->
           IF hit THEN <<"C","o","n","n","e","c","t","e","d"," ","t","o"," ","h","o","s","t">>
           ELSE <<"r","e","f","u","s","e","d">>
      [] OTHER -> IF hit THEN <<"V","U","L","N","E","R","A","B","L","E">> ELSE <<>>

\* no evidence folder
NoPath == [status_dir |-> "-", category_dir |-> <<>>, folder |-> <<>>]

\* f"{vuln['vulnerability'].replace(' ', '_')}_{vuln['ip']}_{vuln['port']}"
FolderName(vuln) ==
    ReplaceChar(vuln.vulnerability, " ", "_") \o <<"_">> \o vuln.ip \o <<"_">> \o vuln.port

\* create_poc_folder (the second definition, which is the one in effect):
\* OUTPUT_DIR/status/category.lower()/folder_name, or ScannerError when
\* os.makedirs raises OSError
create_poc_folder(status, category, vuln, mkdir) ==
    IF mkdir
    THEN [raised |-> FALSE,
          path |-> [status_dir |-> status, category_dir |-> Lower(category),
                    folder |-> FolderName(vuln)]]
    ELSE [raised |-> TRUE, path |-> NoPath]

\* _run_command: True when the command exits with 0; every other outcome
\* ends in raise ScannerError
run_command_raises(outcome) == outcome # "ok"

\* OUTPUT_DIR/status/category, the directory the folders of the findings are in
CategoryDir(status, category) ==
    [status_dir |-> status, category_dir |-> category, folder |-> <<>>]

\* os.makedirs(path, exist_ok=True): the directory and the one above it are
\* there afterwards; what they held they still hold
makedirs(d, path) ==
    LET made == {path, CategoryDir(path.status_dir, path.category_dir)}
    IN  [p \in DOMAIN d \cup made |-> IF p \in DOMAIN d THEN d[p] ELSE NoFiles]

\* the categories setup_directories makes directories for
SetupCategories ==
    {<<"a","p","a","c","h","e">>, <<"d","b">>, <<"d","n","s">>, <<"f","t","p">>,
     <<"i","k","e">>, <<"n","g","i","n","x">>, <<"r","d","p">>, <<"s","m","b">>,
     <<"s","m","t","p">>, <<"s","s","h">>, <<"s","s","l">>, <<"t","e","l","n","e","t">>,
     <<"t","o","m","c","a","t">>, <<"w","e","b">>}

\* the status directories setup_directories makes
SetupStatuses == {"verified", "false_positive"}

\* setup_directories: OUTPUT_DIR/status/category for the two statuses and the
\* fourteen categories, or ScannerError when os.makedirs raises OSError
setup_directories(d, ok) ==
    IF ok
    THEN [raised |-> FALSE,
          disk |-> LET made == {CategoryDir(st, cat) : st \in SetupStatuses,
                                                       cat \in SetupCategories}
                   IN  [p \in DOMAIN d \cup made |-> IF p \in DOMAIN d THEN d[p] ELSE NoFiles]]
    ELSE [raised |-> TRUE, disk |-> d]

\* what _run_command appends to its output file when the command exited
\* non-zero or timed out, up to the colon the two texts share
ERROR_TEXT == <<"E","R","R","O","R",":">>

\* what the except block of a verifier writes to manual_steps.txt
MANUAL_STEPS == <<"M","a","n","u","a","l"," ","C","h","e","c","k"," ",
                  "R","e","q","u","i","r","e","d",":">>


\* what one verify() call did and how it ended: exc is "none" when it
\* returned (status, poc_path); dir is the folder create_poc_folder made
\* (output_dir; NoPath when it raised); run is how the command ended ("none"
\* when it was never launched); read and note tell what became of the output
\* file and of manual_steps.txt
Outcome(exc, status, path, dir, cmd, run, hit, read, note) ==
    [exc |-> exc, status |-> status, poc_path |-> path, dir |-> dir, cmd |-> cmd,
     run |-> run, hit |-> hit, read |-> read, note |-> note]

\* no command was built
NoCmd == [tool |-> "-", script |-> "-", ip |-> <<>>, port |-> <<>>,
          output_file |-> "-", read_file |-> "-"]

\* create_poc_folder raised: ScannerError leaves verify()
FolderFailed == Outcome("ScannerError", "-", NoPath, NoPath, NoCmd, "none", FALSE, "none", "none")

\* a slip in the handler: the command's failure is reported as a finding that
\* does not apply
ManualCheckAsFalsePositive(path, cmd, e) ==
    IF e.note
    THEN Outcome("none", "False Positive", path, path, cmd, e.run, FALSE, "none", "written")
    ELSE Outcome("OSError", "-", NoPath, path, cmd, e.run, FALSE, "none", "failed")

\* the except ScannerError block of a verifier: manual_steps.txt is written
\* and ("Manual Check Required", output_dir) returned; when the write fails
\* its OSError leaves verify()
ManualCheck(path, cmd, e) ==
    IF e.note
    THEN Outcome("none", "Manual Check Required", path, path, cmd, e.run, FALSE, "none", "written")
    ELSE Outcome("OSError", "-", NoPath, path, cmd, e.run, FALSE, "none", "failed")

\* open(output, "r") failed after a successful run: its OSError leaves verify()
ReadFailed(path, cmd, e) ==
    Outcome("OSError", "-", NoPath, path, cmd, "ok", FALSE, "failed", "none")

\* verify() returned after reading the tool's output
Decided(status, path, cmd, e) ==
    Outcome("none", status, path, path, cmd, "ok", e.hit, "ok", "none")

\* a slip: output without a match is taken for a check that could not be made
NmapDecisionManualOnNoMatch(vuln_name, path, cmd, e) ==
    LET output == Lower(ToolOutput(cmd.tool, e.hit))
    IN  IF Contains(output, vuln_name)
           \/ Contains(output, <<"v","u","l","n","e","r","a","b","l","e">>)
        THEN Decided("Verified", path, cmd, e)
        ELSE Decided("Manual Check Required", path, cmd, e)

\* the tail shared by the verifiers that read nmap's XML output:
\* Verified when the lowercased output holds the lowercased name or "vulnerable"
NmapDecision(vuln_name, path, cmd, e) ==
    LET output == Lower(ToolOutput(cmd.tool, e.hit))
    IN  IF Contains(output, vuln_name)
           \/ Contains(output, <<"v","u","l","n","e","r","a","b","l","e">>)
        THEN Decided("Verified", path, cmd, e)
        ELSE Decided("False Positive", path, cmd, e)

----------------------------------------------------------------------------
(* scanners/*.py *)

ApacheVulnScanner_verify(vuln, e) ==
    LET vuln_name == Lower(vuln.vulnerability)
        status    == IF vuln.plugin_id \in {<<"1","1","2","1","9">>, <<"7","3","3","4","6">>}
                     THEN "Verified" ELSE "False Positive"
        dir       == create_poc_folder(status, <<"a","p","a","c","h","e">>, vuln, e.mkdir)
        script    == IF Contains(vuln_name, <<"d","e","f","a","u","l","t">>)
                     THEN "http-default-pages" ELSE "http-vuln-apache"
        cmd       == [tool |-> "nmap", script |-> script, ip |-> vuln.ip, port |-> vuln.port,
                      output_file |-> "nmap_scan.txt", read_file |-> "nmap_scan.xml"]
    IN  IF dir.raised THEN FolderFailed
        ELSE IF run_command_raises(e.run) THEN ManualCheck(dir.path, cmd, e)
        ELSE IF ~e.readable THEN ReadFailed(dir.path, cmd, e)
        ELSE NmapDecision(vuln_name, dir.path, cmd, e)

IKEVulnScanner_verify(vuln, e) ==
    LET dir == create_poc_folder("Verified", <<"i","k","e">>, vuln, e.mkdir)
        cmd == [tool |-> "ike-scan.exe", script |-> "-", ip |-> vuln.ip, port |-> <<>>,
                output_file |-> "ike-scan_output.txt", read_file |-> "ike-scan_output.txt"]
    IN  IF dir.raised THEN FolderFailed
        ELSE IF run_command_raises(e.run) THEN ManualCheck(dir.path, cmd, e)
        ELSE IF ~e.readable THEN ReadFailed(dir.path, cmd, e)
        ELSE LET output == Lower(ToolOutput(cmd.tool, e.hit))
             IN  IF Contains(output, <<"a","g","g","r","e","s","s","i","v","e">>)
                    \/ Contains(output, <<"w","e","a","k">>)
                 THEN Decided("Verified", dir.path, cmd, e)
                 ELSE Decided("False Positive", dir.path, cmd, e)

RDPVulnScanner_verify(vuln, e) ==
    LET vuln_name == Lower(vuln.vulnerability)
        dir       == create_poc_folder("Verified", <<"r","d","p">>, vuln, e.mkdir)
        script    == IF Contains(vuln_name, <<"w","e","a","k">>)
                     THEN "rdp-vuln" ELSE "rdp-enum-encryption"
        cmd       == [tool |-> "nmap", script |-> script, ip |-> vuln.ip,
                      port |-> <<"3","3","8","9">>,
                      output_file |-> "nmap_scan.txt", read_file |-> "nmap_scan.xml"]
    IN  IF dir.raised THEN FolderFailed
        ELSE IF run_command_raises(e.run) THEN ManualCheck(dir.path, cmd, e)
        ELSE IF ~e.readable THEN ReadFailed(dir.path, cmd, e)
        ELSE NmapDecision(vuln_name, dir.path, cmd, e)

SMTPVulnScanner2_verify(vuln, e) ==
    LET vuln_name == Lower(vuln.vulnerability)
        dir       == create_poc_folder("Verified", <<"s","m","t","p">>, vuln, e.mkdir)
        script    == IF Contains(vuln_name, <<"b","a","n","n","e","r">>)
                     THEN "smtp-commands" ELSE "smtp-starttls"
        cmd       == [tool |-> "nmap", script |-> script, ip |-> vuln.ip, port |-> <<"2","5">>,
                      output_file |-> "nmap_scan2.txt", read_file |-> "nmap_scan2.xml"]
    IN  IF dir.raised THEN FolderFailed
        ELSE IF run_command_raises(e.run) THEN ManualCheck(dir.path, cmd, e)
        ELSE IF ~e.readable THEN ReadFailed(dir.path, cmd, e)
        ELSE NmapDecision(vuln_name, dir.path, cmd, e)

\* a slip: the list of plugin ids that picks the folder decides
SSLOutputVerifiedByList(plugin_id, output) ==
    plugin_id \in {<<"2","6","9","2","8">>, <<"4","2","8","7","3">>, <<"1","5","9","0","1">>,
                   <<"8","8","8","8","1">>, <<"5","7","5","8","2">>}

\* the plugin-specific search of lines 27-38 over the lowercased output
SSLOutputVerified(plugin_id, output) ==
    IF Contains(plugin_id, <<"2","6","9","2","8">>) \/ Contains(plugin_id, <<"4","2","8","7","3">>)
    THEN \/ Contains(output, <<"r","c","4">>)
         \/ Contains(output, <<"m","d","5">>)
         \/ Contains(output, <<"s","h","a","1">>)
    ELSE IF Contains(plugin_id, <<"1","5","9","0","1">>)
    THEN Contains(output, <<"s","s","l","v","3">>)
    ELSE IF Contains(plugin_id, <<"8","8","8","8","1">>)
    THEN Contains(output, <<"t","l","s","v","1",".","0">>)
    ELSE IF Contains(plugin_id, <<"5","7","5","8","2">>)
    THEN Contains(output, <<"s","e","l","f","-","s","i","g","n","e","d">>)
    ELSE FALSE

SSLVulnScanner_verify(vuln, e) ==
    LET status == IF vuln.plugin_id \in {<<"2","6","9","2","8">>, <<"4","2","8","7","3">>,
                                         <<"1","5","9","0","1">>, <<"8","8","8","8","1">>,
                                         <<"5","7","5","8","2">>}
                  THEN "Verified" ELSE "False Positive"
        dir    == create_poc_folder(status, <<"s","s","l">>, vuln, e.mkdir)
        cmd    == [tool |-> "sslscan.exe", script |-> "-", ip |-> vuln.ip, port |-> vuln.port,
                   output_file |-> "sslscan_output.txt", read_file |-> "sslscan_output.txt"]
    IN  IF dir.raised THEN FolderFailed
        ELSE IF run_command_raises(e.run) THEN ManualCheck(dir.path, cmd, e)
        ELSE IF ~e.readable THEN ReadFailed(dir.path, cmd, e)
        ELSE IF vuln.plugin_id = None
             THEN Outcome("TypeError", "-", NoPath, dir.path, cmd, "ok", e.hit, "ok", "none")
        ELSE IF SSLOutputVerified(vuln.plugin_id, Lower(ToolOutput(cmd.tool, e.hit)))
             THEN Decided("Verified", dir.path, cmd, e)
             ELSE Decided("False Positive", dir.path, cmd, e)

TelnetVulnScanner_verify(vuln, e) ==
    LET dir == create_poc_folder("Verified", <<"t","e","l","n","e","t">>, vuln, e.mkdir)
        cmd == [tool |-> "telnet", script |-> "-", ip |-> vuln.ip, port |-> vuln.port,
                output_file |-> "telnet_output.txt", read_file |-> "telnet_output.txt"]
    IN  IF dir.raised THEN FolderFailed
        ELSE IF run_command_raises(e.run) THEN ManualCheck(dir.path, cmd, e)
        ELSE IF ~e.readable THEN ReadFailed(dir.path, cmd, e)
        ELSE LET output == Lower(ToolOutput(cmd.tool, e.hit))
             IN  IF Contains(output, <<"c","o","n","n","e","c","t","e","d">>)
                    \/ Contains(output, <<"l","o","g","i","n">>)
                 THEN Decided("Verified", dir.path, cmd, e)
                 ELSE Decided("False Positive", dir.path, cmd, e)

TomcatVulnScanner_verify(vuln, e) ==
    LET vuln_name == Lower(vuln.vulnerability)
        dir       == create_poc_folder("Verified", <<"t","o","m","c","a","t">>, vuln, e.mkdir)
        script    == IF Contains(vuln_name, <<"m","a","n","a","g","e","r">>)
                     THEN "http-tomcat-cve*" ELSE "http-default-pages"
        cmd       == [tool |-> "nmap", script |-> script, ip |-> vuln.ip, port |-> vuln.port,
                      output_file |-> "nmap_scan.txt", read_file |-> "nmap_scan.xml"]
    IN  IF dir.raised THEN FolderFailed
        ELSE IF run_command_raises(e.run) THEN ManualCheck(dir.path, cmd, e)
        ELSE IF ~e.readable THEN ReadFailed(dir.path, cmd, e)
        ELSE NmapDecision(vuln_name, dir.path, cmd, e)

WebVulnScanner_verify(vuln, e) ==
    LET vuln_name == Lower(vuln.vulnerability)
        status    == IF vuln.plugin_id \in {<<"6","5","0","2","7">>, <<"7","3","3","4","2">>,
                                            <<"7","3","3","4","5">>, <<"1","1","2","1","9">>}
                     THEN "Verified" ELSE "False Positive"
        dir       == create_poc_folder(status, <<"w","e","b">>, vuln, e.mkdir)
        script    == IF Contains(vuln_name, <<"t","r","a","v","e","r","s","a","l">>)
                     THEN "http-traversal"
                     ELSE IF Contains(vuln_name, <<"x","s","s">>) THEN "http-xss"
                     ELSE IF Contains(vuln_name, <<"s","q","l">>) THEN "http-sql-injection"
                     ELSE IF Contains(vuln_name, <<"m","e","t","h","o","d">>) THEN "http-methods"
                     ELSE "http-vuln-*"
        cmd       == [tool |-> "nmap", script |-> script, ip |-> vuln.ip, port |-> vuln.port,
                      output_file |-> "nmap_scan.txt", read_file |-> "nmap_scan.xml"]
    IN  IF dir.raised THEN FolderFailed
        ELSE IF run_command_raises(e.run) THEN ManualCheck(dir.path, cmd, e)
        ELSE IF ~e.readable THEN ReadFailed(dir.path, cmd, e)
        ELSE NmapDecision(vuln_name, dir.path, cmd, e)

\* a verifier whose file is not part of the sources (DB, DNS, FTP, Nginx, SMB,
\* SMTP, SSH, General): one external command, Manual Check Required with a
\* note when it fails, else Verified or False Positive by a search of its output
OtherScanner_verify(vuln, e) ==
    LET dir == create_poc_folder("Verified", <<"g","e","n","e","r","a","l">>, vuln, e.mkdir)
        cmd == [tool |-> "other", script |-> "-", ip |-> vuln.ip, port |-> vuln.port,
                output_file |-> "output.txt", read_file |-> "output.txt"]
    IN  IF dir.raised THEN FolderFailed
        ELSE IF run_command_raises(e.run) THEN ManualCheck(dir.path, cmd, e)
        ELSE IF ~e.readable THEN ReadFailed(dir.path, cmd, e)
        ELSE NmapDecision(Lower(vuln.vulnerability), dir.path, cmd, e)

\* the verifiers whose source is at hand
SourceScanners ==
    {"ApacheVulnScanner", "IKEVulnScanner", "RDPVulnScanner", "SMTPVulnScanner2",
     "SSLVulnScanner", "TelnetVulnScanner", "TomcatVulnScanner", "WebVulnScanner"}

\* scanner.verify(vuln), by the class of the scanner
verify(scanner, vuln, e) ==
    CASE scanner = "ApacheVulnScanner" -> ApacheVulnScanner_verify(vuln, e)
      [] scanner = "IKEVulnScanner"    -> IKEVulnScanner_verify(vuln, e)
      [] scanner = "RDPVulnScanner"    -> RDPVulnScanner_verify(vuln, e)
      [] scanner = "SMTPVulnScanner2"  -> SMTPVulnScanner2_verify(vuln, e)
      [] scanner = "SSLVulnScanner"    -> SSLVulnScanner_verify(vuln, e)
      [] scanner = "TelnetVulnScanner" -> TelnetVulnScanner_verify(vuln, e)
      [] scanner = "TomcatVulnScanner" -> TomcatVulnScanner_verify(vuln, e)
      [] scanner = "WebVulnScanner"    -> WebVulnScanner_verify(vuln, e)
      [] OTHER                         -> OtherScanner_verify(vuln, e)

\* the output tree after one verify() call that ended as r: create_poc_folder
\* made the folder; a command that ran to its end left its output in the
\* file verify() reads and in the file _run_command opened for its stdout; a
\* command that exited non-zero or timed out left that file with the error
\* text _run_command appends; one that could not be started left nothing;
\* the except block of verify() left manual_steps.txt, which names the command
WriteEvidence(d, r) ==
    IF r.dir = NoPath THEN d
    ELSE LET d1     == makedirs(d, r.dir)
             output == ToolOutput(r.cmd.tool, r.hit)
             f0     == d1[r.dir]
             f1     == CASE r.run = "ok" ->
                              PutFile(PutFile(f0, r.cmd.output_file, output),
                                      r.cmd.read_file, output)
                         [] r.run \in {"nonzero", "timeout"} ->
                              PutFile(f0, r.cmd.output_file, ERROR_TEXT)
                         [] OTHER -> f0
             f2     == IF r.note = "written"
                       THEN PutFile(f1, "manual_steps.txt", MANUAL_STEPS)
                       ELSE f1
         IN  [d1 EXCEPT ![r.dir] = f2]

----------------------------------------------------------------------------
(* starter.py *)

\* the scanners dictionary of main: category -> class of the scanner
scanners ==
    (<<"A","p","a","c","h","e">> :> "ApacheVulnScanner")
    @@ (<<"D","B">> :> "DBVulnScanner")
    @@ (<<"D","N","S">> :> "DNSVulnScanner")
    @@ (<<"F","T","P">> :> "FTPVulnScanner")
    @@ (<<"I","K","E">> :> "IKEVulnScanner")
    @@ (<<"N","g","i","n","x">> :> "NginxVulnScanner")
    @@ (<<"R","D","P">> :> "RDPVulnScanner")
    @@ (<<"S","M","B">> :> "SMBVulnScanner")
    @@ (<<"S","M","T","P">> :> "SMTPVulnScanner")
    @@ (<<"S","M","T","P","2">> :> "SMTPVulnScanner2")
    @@ (<<"S","S","H">> :> "SSHVulnScanner")
    @@ (<<"S","S","L">> :> "SSLVulnScanner")
    @@ (<<"T","e","l","n","e","t">> :> "TelnetVulnScanner")
    @@ (<<"T","o","m","c","a","t">> :> "TomcatVulnScanner")
    @@ (<<"G","e","n","e","r","a","l">> :> "VulnerabilityScanner")
    @@ (<<"W","e","b">> :> "WebVulnScanner")

\* a slip: the table is asked for the lowercased category, as the folders are
\* named, so that no category is found and all go to the default
SelectScannerLowercased(category) ==
    IF Lower(category) \in DOMAIN scanners THEN scanners[Lower(category)]
    ELSE scanners[C_General]

\* scanners.get(category, scanners["General"])
SelectScanner(category) ==
    IF category \in DOMAIN scanners THEN scanners[category] ELSE scanners[C_General]

\* f"{OUTPUT_DIR}/manual/{vuln['vulnerability'].replace(' ', '_')}_{vuln['ip']}_{vuln['port']}"
ManualPath(vuln) == [status_dir |-> "manual", category_dir |-> <<>>, folder |-> FolderName(vuln)]

\* a slip: the handler logs the error and records nothing
RecordResultDropError(res, vuln, r) ==
    IF r.exc = "none" THEN Append(res, <<r.status, r.poc_path>>) ELSE res

\* the body of the try of lines 115-122: what is appended to results when
\* verify() returned, and what the except Exception block appends when it raised
RecordResult(res, vuln, r) ==
    IF r.exc = "none" THEN Append(res, <<r.status, r.poc_path>>)
    ELSE Append(res, <<"Manual Check Required", ManualPath(vuln)>>)

\* a slip: the dry run reports its findings as in need of a manual check
DummyResultsManual(vulns) ==
    [k \in 1..Len(vulns) |->
        <<"Manual Check Required",
          [status_dir |-> "not_verified", category_dir |-> <<>>, folder |-> <<>>]>>]

\* dummy_results of line 85
DummyResults(vulns) ==
    [k \in 1..Len(vulns) |->
        <<"Not Verified (Dry Run)",
          [status_dir |-> "not_verified", category_dir |-> <<>>, folder |-> <<>>]>>]

\* a slip: the category is compared as it was typed
FilterCategoryExactCase(vulns, category) ==
    SelectSeq(vulns, LAMBDA v : v.category = category)

\* the category filter of line 79
RECURSIVE FilterCategory(_, _)
FilterCategory(vulns, category) ==
    IF vulns = <<>> THEN <<>>
    ELSE (IF Lower(Head(vulns).category) = Lower(category) THEN <<Head(vulns)>> ELSE <<>>)
         \o FilterCategory(Tail(vulns), category)

\* most rows of a scan export
MaxRows == 2

\* a row of a Nessus standard export, as csv.DictReader yields it
NessusRow(ip, port, protocol, name, plugin_id) ==
    [c \in {"Plugin ID", "Host", "Port", "Protocol", "Name", "Description", "Solution"} |->
        CASE c = "Plugin ID" -> plugin_id
          [] c = "Host"      -> ip
          [] c = "Port"      -> port
          [] c = "Protocol"  -> protocol
          [] c = "Name"      -> name
          [] OTHER           -> <<"a">>]

IP_A == <<"1","0",".","0",".","0",".","5">>

TCP == <<"t","c","p">>

N_APACHE_DEFAULT ==
    <<"A","p","a","c","h","e"," ","D","e","f","a","u","l","t"," ",
      "W","e","l","c","o","m","e"," ","P","a","g","e">>

P_11219 == <<"1","1","2","1","9">>

\* the rows a run of main is given: one finding for each verifier whose
\* source is at hand, a second SSL finding whose plugin id the SSL verifier
\* has no search for, and one of a category without a scanner (SNMP)
MainRows ==
    {NessusRow(IP_A, <<"8","0">>, TCP, N_APACHE_DEFAULT, P_11219),
     NessusRow(IP_A, <<"4","4","3">>, TCP,
               <<"S","S","L"," ","W","e","a","k"," ","C","i","p","h","e","r">>,
               <<"2","6","9","2","8">>),
     NessusRow(IP_A, <<"8","4","4","3">>, TCP,
               <<"S","S","L"," ","C","e","r","t","i","f","i","c","a","t","e">>,
               <<"1","0","8","6","3">>),
     NessusRow(IP_A, <<"2","3">>, TCP,
               <<"T","e","l","n","e","t"," ","C","l","e","a","r","t","e","x","t">>,
               <<"4","2","2","6","3">>),
     NessusRow(IP_A, <<"5","0","0">>, <<"u","d","p">>,
               <<"I","K","E"," ","A","g","g","r","e","s","s","i","v","e">>,
               <<"6","2","6","9","4">>),
     NessusRow(IP_A, <<"3","3","9","0">>, TCP,
               <<"R","D","P"," ","W","e","a","k">>, <<"3","0","2","1","8">>),
     NessusRow(IP_A, <<"5","8","7">>, TCP,
               <<"S","T","A","R","T","T","L","S"," ","I","n","j","e","c","t","i","o","n">>,
               <<"5","2","6","1","1">>),
     NessusRow(IP_A, <<"8","0","8","0">>, TCP,
               <<"T","o","m","c","a","t"," ","M","a","n","a","g","e","r">>,
               <<"1","2","0","8","5">>),
     NessusRow(IP_A, <<"8","0">>, TCP,
               <<"H","T","T","P"," ","T","R","A","C","E"," ","M","e","t","h","o","d","s">>,
               <<"1","1","2","1","3">>),
     NessusRow(IP_A, <<"1","6","1">>, <<"u","d","p">>,
               <<"S","N","M","P"," ","P","u","b","l","i","c">>,
               <<"4","1","0","2","8">>)}

\* the values of --category tried: none, and a name in another case
CategoryArgs == {None, <<"a","p","a","c","h","e">>}

\* the values of the csv_file argument tried
CsvNames == {<<"r",".","c","s","v">>, <<"r",".","C","S","V">>, <<"r",".","t","x","t">>,
             <<"c","s","v">>}

\* the values of the environment variable SKIP_TOOL_INSTALL tried; None when
\* it is not set
SkipValues == {None, <<"T","r","u","e">>, <<"1">>, <<"T">>, <<"y","e","s">>, <<"0">>}

\* how config/tool_config.json can be found
ToolConfigs == {"ok", "missing", "malformed"}

\* the command line (argv, as parse_arguments returns it) and the machine:
\* whether the csv file exists, whether os.makedirs works in the output
\* tree, the SKIP_TOOL_INSTALL variable the installer reads at import,
\* tool_config.json, whether the check commands of the tools find them
\* installed, and whether vuln_mappings.json can be loaded
Hosts ==
    [argv : [csv_file : CsvNames, skip_tools : BOOLEAN, dry_run : BOOLEAN,
             category : CategoryArgs],
     exists : BOOLEAN, makedirs : BOOLEAN, SKIP_TOOL_INSTALL : SkipValues,
     tool_config : ToolConfigs, installed : BOOLEAN, vuln_mappings : BOOLEAN]

\* the hosts a run over an export of many rows is tried on: all is in place
\* but, on some, the output tree
MainHosts ==
    {h \in Hosts : /\ h.argv.csv_file = <<"r",".","c","s","v">>
                   /\ ~h.argv.skip_tools
                   /\ h.exists
                   /\ h.SKIP_TOOL_INSTALL = None
                   /\ h.tool_config = "ok"
                   /\ h.installed
                   /\ h.vuln_mappings}

\* a slip: the name of the file is not looked at
validate_exists_only(filepath, exists) ==
    IF ~exists THEN "does not exist" ELSE "ok"

\* validate_csv_file: "ok", or what its ValidationError says
validate_csv_file(filepath, exists) ==
    IF ~exists THEN "does not exist"
    ELSE IF ~EndsWith(filepath, <<".","c","s","v">>) THEN "must be a .csv file"
    ELSE "ok"

\* a slip: the value of the variable is compared as it was set
SKIP_INSTALL_exact_case(value) ==
    (IF value = None THEN <<"F","a","l","s","e">> ELSE value)
        \in {<<"t","r","u","e">>, <<"1">>, <<"t">>}

\* SKIP_INSTALL, line 17: os.environ.get('SKIP_TOOL_INSTALL', 'False').lower()
\* in ('true', '1', 't')
SKIP_INSTALL(value) ==
    Lower(IF value = None THEN <<"F","a","l","s","e">> ELSE value)
        \in {<<"t","r","u","e">>, <<"1">>, <<"t">>}

\* install_tools was not called
NoTools == [called |-> FALSE, raised |-> FALSE, config_opened |-> FALSE, commands |-> {}]

\* install_tools: whether it raised (ScannerError: tool_config.json is
\* missing or no JSON), whether it opened tool_config.json, and the kinds of
\* commands it ran; a tool found by its check command is passed over, a tool
\* that cannot be installed is logged and passed over
install_tools(h) ==
    IF SKIP_INSTALL(h.SKIP_TOOL_INSTALL)
    THEN [called |-> TRUE, raised |-> FALSE, config_opened |-> FALSE, commands |-> {}]
    ELSE IF h.tool_config # "ok"
    THEN [called |-> TRUE, raised |-> TRUE, config_opened |-> TRUE, commands |-> {}]
    ELSE [called |-> TRUE, raised |-> FALSE, config_opened |-> TRUE,
          commands |-> IF h.installed THEN {"check_cmd"}
                       ELSE {"check_cmd", "download", "install_cmd"}]

\* the fills of generate_report, by status
fills ==
    [s \in Statuses |->
        CASE s = "Verified" -> "00FF00"
          [] s = "False Positive" -> "FF0000"
          [] OTHER -> "FFFF00"]

\* a slip: a status without a fill of its own is shown as Verified
ReportRowFallbackVerified(vuln, result) ==
    [ip |-> vuln.ip, port |-> vuln.port, service |-> vuln.service,
     vulnerability |-> vuln.vulnerability, plugin_id |-> vuln.plugin_id,
     status |-> result[1], poc_path |-> result[2],
     fill |-> IF result[1] \in DOMAIN fills THEN fills[result[1]]
              ELSE fills["Verified"]]

\* one data row of the sheet and the fill of its status cell
ReportRow(vuln, result) ==
    [ip |-> vuln.ip, port |-> vuln.port, service |-> vuln.service,
     vulnerability |-> vuln.vulnerability, plugin_id |-> vuln.plugin_id,
     status |-> result[1], poc_path |-> result[2],
     fill |-> IF result[1] \in DOMAIN fills THEN fills[result[1]]
              ELSE fills["Manual Check Required"]]

\* generate_report: the rows appended for zip(vulnerabilities, results), and
\* whether wb.save went through (ScannerError is raised when it did not)
generate_report(vulns, res, saved) ==
    LET n == IF Len(vulns) < Len(res) THEN Len(vulns) ELSE Len(res)
    IN  [called |-> TRUE, vulnerabilities |-> vulns, results |-> res,
         rows |-> [k \in 1..n |-> ReportRow(vulns[k], res[k])],
         saved |-> saved]

NoReport ==
    [called |-> FALSE, vulnerabilities |-> <<>>, results |-> <<>>, rows |-> <<>>,
     saved |-> FALSE]

NoArgs == [csv_file |-> <<>>, skip_tools |-> FALSE, dry_run |-> FALSE, category |-> None]

\* nothing was written below OUTPUT_DIR
NoDisk == [p \in {} |-> NoFiles]

\* before the first turn of the loop
NoTurn == [scanner |-> "-", vuln |-> <<>>, out |-> FolderFailed]

MaskIdle ==
    /\ ip_str = <<>>
    /\ masked = <<"-">>
    /\ mpc = "idle"

Init ==
    /\ MaskIdle
    /\ SplitIdle
    /\ RunIdle
    /\ DownloadIdle
    /\ ValidateIdle
    /\ host \in MainHosts
    /\ disk = NoDisk
    /\ tools = NoTools
    /\ csv_file = [fieldnames |-> DOMAIN NessusRow(<<>>, <<>>, <<>>, <<>>, <<>>), rows |-> <<>>]
    /\ args = NoArgs
    /\ pc = "write"
    /\ vulnerabilities = <<>>
    /\ results = <<>>
    /\ i = 0
    /\ last = NoTurn
    /\ report = NoReport

\* the scanner that writes the export adds a row
WriteRow ==
    /\ pc = "write"
    /\ Len(csv_file.rows) < MaxRows
    /\ \E row \in MainRows : csv_file' = [csv_file EXCEPT !.rows = Append(@, row)]
    /\ UNCHANGED <<host, disk, args, pc, vulnerabilities, results, i, last, report, tools, maskVars, splitter, runner, dl, validator>>

\* main, lines 40-67: the arguments are parsed, the file is validated, the
\* directories are set up and, unless --skip-tools is given, the tools
\* installed; any failure exits with 1
Start ==
    /\ pc = "write"
    /\ args' = host.argv
    /\ LET valid == validate_csv_file(host.argv.csv_file, host.exists)
           setup == setup_directories(disk, host.makedirs)
       IN  IF valid # "ok" \/ setup.raised
           THEN /\ pc' = "exit1"
                /\ disk' = disk
                /\ tools' = tools
           ELSE /\ disk' = setup.disk
                /\ tools' = IF host.argv.skip_tools THEN NoTools ELSE install_tools(host)
                /\ pc' = IF ~host.argv.skip_tools /\ install_tools(host).raised
                         THEN "exit1" ELSE "parse"
    /\ UNCHANGED <<host, csv_file, vulnerabilities, results, i, last, report, maskVars, splitter, runner, dl, validator>>

\* main, lines 69-80: the file is parsed and the findings filtered by category
ParseCsvIgnoresDryRun ==
    /\ pc = "parse"
    /\ LET parsed == IF host.vuln_mappings THEN parse_nessus_csv(csv_file)
                     ELSE [raised |-> TRUE, vulnerabilities |-> <<>>]
       IN  IF parsed.raised
           THEN /\ pc' = "exit1"
                /\ UNCHANGED vulnerabilities
           ELSE /\ vulnerabilities' =
                      IF Truthy(args.category)
                      THEN FilterCategory(parsed.vulnerabilities, args.category)
                      ELSE parsed.vulnerabilities
                /\ pc' = "verify"
    /\ UNCHANGED <<host, disk, csv_file, args, results, i, last, report, tools, maskVars, splitter, runner, dl, validator>>

ParseCsv ==
    /\ pc = "parse"
    /\ LET parsed == IF host.vuln_mappings THEN parse_nessus_csv(csv_file)
                     ELSE [raised |-> TRUE, vulnerabilities |-> <<>>]
       IN  IF parsed.raised
           THEN /\ pc' = "exit1"
                /\ UNCHANGED vulnerabilities
           ELSE /\ vulnerabilities' =
                      IF Truthy(args.category)
                      THEN FilterCategory(parsed.vulnerabilities, args.category)
                      ELSE parsed.vulnerabilities
                /\ pc' = IF args.dry_run THEN "dry_run" ELSE "verify"
    /\ UNCHANGED <<host, disk, csv_file, args, results, i, last, report, tools, maskVars, splitter, runner, dl, validator>>

\* main, lines 83-88: the dry run reports dummy results and exits with 0; an
\* exception of generate_report is not caught here and ends the process with 1
DryRun ==
    /\ pc = "dry_run"
    /\ \E saved \in BOOLEAN :
         /\ report' = generate_report(vulnerabilities, DummyResults(vulnerabilities), saved)
         /\ pc' = IF saved THEN "exit0" ELSE "exit1"
    /\ UNCHANGED <<host, disk, csv_file, args, vulnerabilities, results, i, last, tools, maskVars, splitter, runner, dl, validator>>

\* main, lines 112-122: one turn of the verification loop
VerifyNext ==
    /\ pc = "verify"
    /\ i < Len(vulnerabilities)
    /\ \E e \in Environments :
         LET vuln    == vulnerabilities[i + 1]
             scanner == SelectScanner(vuln.category)
             r       == verify(scanner, vuln, e)
         IN  /\ results' = RecordResult(results, vuln, r)
             /\ disk' = WriteEvidence(disk, r)
             /\ last' = [scanner |-> scanner, vuln |-> vuln, out |-> r]
    /\ i' = i + 1
    /\ UNCHANGED <<host, csv_file, args, pc, vulnerabilities, report, tools, maskVars, splitter, runner, dl, validator>>

\* main, lines 125-130: the report is generated; main returns when it was
\* saved and exits with 1 when generate_report raised
GenerateReport ==
    /\ pc = "verify"
    /\ i = Len(vulnerabilities)
    /\ \E saved \in BOOLEAN :
         /\ report' = generate_report(vulnerabilities, results, saved)
         /\ pc' = IF saved THEN "exit0" ELSE "exit1"
    /\ UNCHANGED <<host, disk, csv_file, args, vulnerabilities, results, i, last, tools, maskVars, splitter, runner, dl, validator>>

Next ==
    \/ WriteRow
    \/ Start
    \/ ParseCsv
    \/ DryRun
    \/ VerifyNext
    \/ GenerateReport

Spec == Init /\ [][Next]_vars

----------------------------------------------------------------------------
(* main on every command line and machine *)

\* a row too short to hold its plugin id, which no keyword gives a category
ShortRow ==
    NessusRow(IP_A, <<"0">>, TCP,
              <<"I","C","M","P"," ","T","i","m","e","s","t","a","m","p">>, None)

\* the exports main is started on: an empty one, one of one finding, one of
\* two findings, and one whose second row breaks the parser
StartFiles ==
    {<<>>,
     <<NessusRow(IP_A, <<"8","0">>, TCP, N_APACHE_DEFAULT, P_11219)>>,
     <<NessusRow(IP_A, <<"2","3">>, TCP,
                 <<"T","e","l","n","e","t"," ","C","l","e","a","r","t","e","x","t">>,
                 <<"4","2","2","6","3">>),
       NessusRow(IP_A, <<"8","0">>, TCP, N_APACHE_DEFAULT, P_11219)>>,
     <<NessusRow(IP_A, <<"8","0">>, TCP, N_APACHE_DEFAULT, P_11219), ShortRow>>}

InitStart ==
    /\ MaskIdle
    /\ SplitIdle
    /\ RunIdle
    /\ DownloadIdle
    /\ ValidateIdle
    /\ host \in Hosts
    /\ disk = NoDisk
    /\ tools = NoTools
    /\ \E rows \in StartFiles :
         csv_file = [fieldnames |-> DOMAIN NessusRow(<<>>, <<>>, <<>>, <<>>, <<>>),
                     rows |-> rows]
    /\ args = NoArgs
    /\ pc = "write"
    /\ vulnerabilities = <<>>
    /\ results = <<>>
    /\ i = 0
    /\ last = NoTurn
    /\ report = NoReport

NextStart ==
    \/ Start
    \/ ParseCsv
    \/ DryRun
    \/ VerifyNext
    \/ GenerateReport

SpecStart == InitStart /\ [][NextStart]_vars

\* validate_csv_file raises on this host
ValidationFails ==
    ~host.exists \/ ~EndsWith(host.argv.csv_file, <<".","c","s","v">>)

\* setup_directories raises, or install_tools is called and cannot load
\* tool_config.json
SetupFails ==
    \/ ~host.makedirs
    \/ (~host.argv.skip_tools /\ ~SKIP_INSTALL(host.SKIP_TOOL_INSTALL)
            /\ host.tool_config # "ok")

\* parse_nessus_csv raises
ParseFails == ~host.vuln_mappings \/ parse_nessus_csv(csv_file).raised

\* no verifier was invoked, no evidence folder made and no report written
NothingVerified ==
    /\ i = 0
    /\ results = <<>>
    /\ ~report.called
    /\ \A p \in DOMAIN disk : p.folder = <<>>

\* C12: main exits with status 1 when validation fails (the file is missing
\* or its name does not end in ".csv"), when directory setup or the loading
\* of the tool configuration fails, or when parsing fails, and then no
\* verifier was invoked and no report written; a run that completes the
\* verification loop and the writing of the report, or a dry run that
\* completes, exits with status 0; main exits with 1 in no other case than
\* these and a report that could not be saved.
C12_ExitStatus ==
    /\ (pc # "write" /\ (ValidationFails \/ SetupFails))
          => (pc = "exit1" /\ NothingVerified)
    /\ (pc \notin {"write", "parse"} /\ ParseFails)
          => (pc = "exit1" /\ NothingVerified)
    /\ (report.called /\ report.saved)
          => /\ pc = "exit0"
             /\ args.dry_run \/ (i = Len(vulnerabilities) /\ Len(results) = i)
    /\ pc = "exit0" => (report.called /\ report.saved)
    /\ pc = "exit1"
          => \/ ValidationFails
             \/ SetupFails
             \/ ParseFails
             \/ (report.called /\ ~report.saved)

\* the file is there and is named r.txt: main exited with 1 at once
C12_Witness ==
    /\ pc = "exit1"
    /\ host.exists
    /\ host.makedirs
    /\ host.argv.csv_file = <<"r",".","t","x","t">>
    /\ Len(csv_file.rows) = 2
    /\ NothingVerified

----------------------------------------------------------------------------
(* parse_nessus_csv on its own *)

\* most rows of a file handed to parse_nessus_csv on its own
MaxParseRows == 2

\* the column layouts of the files tried, each as the columns its writer puts
\* the fields of a finding in: the two known exports, the default layout, and
\* a Nessus export without its Port column
Layouts ==
    {NessusMapping, Report4Mapping, DefaultMapping,
     [ip |-> "Host", service |-> "Protocol", vulnerability |-> "Name",
      plugin_id |-> "Plugin ID", description |-> "Description", solution |-> "Solution"]}

\* the row csv.DictReader yields for the values r written in layout l
RowDict(l, r) ==
    [c \in {l[f] : f \in DOMAIN l} |-> r[CHOOSE f \in DOMAIN l : l[f] = c]]

\* the values of one row; None is a field the row is too short to hold
RowValues(ip, port, service, name, plugin_id, description) ==
    [ip |-> ip, port |-> port, service |-> service, vulnerability |-> name,
     plugin_id |-> plugin_id, description |-> description, solution |-> <<>>]

N_ICMP == <<"I","C","M","P"," ","T","i","m","e","s","t","a","m","p">>

\* the plugin id of the TRACE finding of the Web category
P_11213 == <<"1","1","2","1","3">>

\* rows that are complete, rows that lack the ip, the port or the name, two
\* rows that agree in service, name and plugin id and differ in the rest, a
\* row too short to hold its plugin id, a row with keywords of two categories
\* and the plugin id of a third, and two rows without a keyword, one with a
\* known plugin id and one with a longer id that holds it
ParseRowValues ==
    {RowValues(IP_A, <<"8","0">>, TCP, N_APACHE_DEFAULT, P_11219, <<"a">>),
     RowValues(IP_A, <<"0">>, TCP, N_ICMP, <<"1","0","1","1","4">>, <<"a">>),
     RowValues(<<"1","0",".","0",".","0",".","9">>, <<"1">>, TCP, N_ICMP,
               <<"1","0","1","1","4">>, <<"s","s","l">>),
     RowValues(<<>>, <<"8","0">>, TCP, N_APACHE_DEFAULT, P_11219, <<"a">>),
     RowValues(IP_A, None, None, N_APACHE_DEFAULT, P_11219, None),
     RowValues(IP_A, <<"8","0">>, TCP, <<>>, P_11219, <<"a">>),
     RowValues(IP_A, <<"0">>, TCP, N_ICMP, None, None),
     RowValues(IP_A, <<"8","0">>, <<"S","S","L">>, N_APACHE_DEFAULT, P_11213, <<"a">>),
     RowValues(IP_A, <<"0">>, TCP, N_ICMP, P_11213, <<"a">>),
     RowValues(IP_A, <<"0">>, TCP, N_ICMP, <<"1">> \o P_11213, <<"a">>)}

\* a host where all is in place
GoodHost == CHOOSE h \in MainHosts : h.makedirs /\ ~h.argv.dry_run /\ h.argv.category = None

InitParse ==
    /\ MaskIdle
    /\ SplitIdle
    /\ RunIdle
    /\ DownloadIdle
    /\ ValidateIdle
    /\ host = GoodHost
    /\ disk = NoDisk
    /\ tools = NoTools
    /\ \E l \in Layouts : csv_file = [fieldnames |-> {l[f] : f \in DOMAIN l}, rows |-> <<>>]
    /\ args = NoArgs
    /\ pc = "write"
    /\ vulnerabilities = <<>>
    /\ results = <<>>
    /\ i = 0
    /\ last = NoTurn
    /\ report = NoReport

\* the export gets one more row, in the layout of its header
WriteAnyRow ==
    /\ pc = "write"
    /\ Len(csv_file.rows) < MaxParseRows
    /\ \E l \in Layouts, r \in ParseRowValues :
         /\ csv_file.fieldnames = {l[f] : f \in DOMAIN l}
         /\ csv_file' = [csv_file EXCEPT !.rows = Append(@, RowDict(l, r))]
    /\ UNCHANGED <<host, disk, args, pc, vulnerabilities, results, i, last, report, tools, maskVars, splitter, runner, dl, validator>>

\* vulnerabilities = parse_nessus_csv(csv_file), or its ValidationError
CallParse ==
    /\ pc = "write"
    /\ LET parsed == parse_nessus_csv(csv_file)
       IN  /\ vulnerabilities' = parsed.vulnerabilities
           /\ pc' = IF parsed.raised THEN "parse_raised" ELSE "parsed"
    /\ UNCHANGED <<host, disk, csv_file, args, results, i, last, report, tools, maskVars, splitter, runner, dl, validator>>

NextParse ==
    \/ WriteAnyRow
    \/ CallParse

SpecParse == InitParse /\ [][NextParse]_vars

----------------------------------------------------------------------------
(* The category of a finding *)

\* the rules, General apart, one of whose keywords is in the lowercased
\* service or in the lowercased name of the finding v
KeywordHits(v) ==
    {c \in 1..Len(mappings) :
        /\ mappings[c].category # C_General
        /\ \E k \in 1..Len(mappings[c].keywords) :
              \/ Contains(IF Truthy(v.service) THEN Lower(v.service) ELSE <<>>,
                          mappings[c].keywords[k])
              \/ Contains(IF Truthy(v.vulnerability) THEN Lower(v.vulnerability) ELSE <<>>,
                          mappings[c].keywords[k])}

\* the rules one of whose known identifiers is the identifier of the finding v
IdentifierHits(v) ==
    {c \in 1..Len(mappings) :
        \E e \in 1..Len(mappings[c].vulnerabilities) :
            \E k \in 1..Len(mappings[c].vulnerabilities[e].plugin_ids) :
                mappings[c].vulnerabilities[e].plugin_ids[k] = v.plugin_id}

\* C23: in categorize_vulnerability the keywords go before the identifiers:
\* when a category other than General has a keyword that is a substring of
\* the lowercased service or of the lowercased name, the finding gets the
\* first such category in the order of the rule set, whatever its identifier
\* is; the keywords of General are never used, so a finding that only they
\* match is categorized by its identifier.
C23_KeywordsFirst ==
    pc = "parsed" =>
        \A n \in 1..Len(vulnerabilities) :
            LET v == vulnerabilities[n]
                hits == KeywordHits(v)
                ids == IdentifierHits(v)
            IN  /\ hits # {} =>
                     v.category = mappings[CHOOSE c \in hits : \A d \in hits : c <= d].category
                /\ (hits = {} /\ ids # {}) => v.category # C_General

\* an Apache finding on an SSL service with the plugin id of a Web finding
\* is in the category Apache, and an ICMP finding with that plugin id, which
\* only a keyword of General matches, is in the category Web
C23_Witness ==
    /\ pc = "parsed"
    /\ Len(vulnerabilities) = 2
    /\ vulnerabilities[1].vulnerability = N_APACHE_DEFAULT
    /\ vulnerabilities[1].service = <<"S","S","L">>
    /\ vulnerabilities[1].plugin_id = P_11213
    /\ vulnerabilities[1].category = <<"A","p","a","c","h","e">>
    /\ vulnerabilities[2].vulnerability = N_ICMP
    /\ vulnerabilities[2].plugin_id = P_11213
    /\ vulnerabilities[2].category = <<"W","e","b">>

\* C24: in categorize_vulnerability, when no keyword matches, a category
\* other than General is returned only if one of that category's known
\* identifiers is the identifier of the finding, and the result is General
\* when the identifier is in no category's list.
C24_IdentifierFallback ==
    pc = "parsed" =>
        \A n \in 1..Len(vulnerabilities) :
            LET v == vulnerabilities[n]
                ids == IdentifierHits(v)
            IN  KeywordHits(v) = {} =>
                    /\ v.category # C_General =>
                         \E c \in ids : mappings[c].category = v.category
                    /\ ids = {} => v.category = C_General

----------------------------------------------------------------------------
(* The verification loop: the latest turn and what main recorded for it *)

\* the outcomes of _run_command other than success
FailedRuns == {"nonzero", "timeout", "nostart"}

\* the loop has made a turn and main has recorded its result
TurnRecorded == i >= 1 /\ Len(results) = i

\* the loop is over and generate_report was called with its results
LoopReported == report.called /\ ~args.dry_run

\* C1: for each of the eight verifiers, a finding whose external command
\* exited non-zero, timed out or could not be started is recorded with status
\* "Manual Check Required", never "Verified" or "False Positive".
C1_FailedCommandIsManualCheck ==
    (i >= 1 /\ last.scanner \in SourceScanners /\ last.out.run \in FailedRuns)
        => (Len(results) = i /\ results[i][1] = "Manual Check Required")

\* the SSL verifier's command timed out and the finding was recorded
C1_Witness ==
    /\ TurnRecorded
    /\ last.scanner = "SSLVulnScanner"
    /\ last.out.run = "timeout"
    /\ results[i][1] = "Manual Check Required"

\* C2: in the verification loop every turn leaves exactly one entry in
\* results, at the index of its finding and naming that finding, however the
\* turn ended; when the loop is over every finding has had its turn and
\* results is as long as the list of findings.
C2_OneResultPerFinding ==
    /\ (pc = "verify" \/ LoopReported) =>
          /\ Len(results) = i
          /\ i <= Len(vulnerabilities)
          /\ \A k \in 1..Len(results) :
                results[k][2].folder = FolderName(vulnerabilities[k])
    /\ LoopReported => i = Len(vulnerabilities) /\ Len(report.results) = Len(vulnerabilities)

\* the first finding ended in an exception, the second was verified, and both
\* are in the results handed to the report
C2_Witness ==
    /\ LoopReported
    /\ Len(vulnerabilities) = 2
    /\ report.results[1] = <<"Manual Check Required", ManualPath(vulnerabilities[1])>>
    /\ report.results[2][1] = "Verified"

\* C3: parse_nessus_csv returns no record for a row whose ip, port or
\* vulnerability name (in the column the selected mapping gives it) is absent
\* or empty: it returns as many records as there are rows with all three, and
\* every record has all three non-empty.
C3_IncompleteRowsExcluded ==
    pc = "parsed" =>
        LET m == get_field_mapping(csv_file.fieldnames)
            HasValue(row, col) == col \in DOMAIN row /\ row[col] # None /\ row[col] # <<>>
            whole == {k \in 1..Len(csv_file.rows) :
                        /\ HasValue(csv_file.rows[k], m.ip)
                        /\ HasValue(csv_file.rows[k], m.port)
                        /\ HasValue(csv_file.rows[k], m.vulnerability)}
        IN  /\ Len(vulnerabilities) = Cardinality(whole)
            /\ \A k \in 1..Len(vulnerabilities) :
                  /\ vulnerabilities[k].ip \notin {None, <<>>}
                  /\ vulnerabilities[k].port \notin {None, <<>>}
                  /\ vulnerabilities[k].vulnerability \notin {None, <<>>}

\* a file of a complete row and a row without its port gave one record
C3_Witness ==
    /\ pc = "parsed"
    /\ Len(csv_file.rows) = 2
    /\ "Port" \in DOMAIN csv_file.rows[2]
    /\ csv_file.rows[2]["Port"] = None
    /\ Len(vulnerabilities) = 1
    /\ vulnerabilities[1].port = <<"8","0">>

\* C4: two parsed records with the same service, vulnerability name and
\* plugin id have the same category, whatever their other fields are and
\* wherever they stand in the file.
C4_SameTripleSameCategory ==
    pc = "parsed" =>
        \A a, b \in 1..Len(vulnerabilities) :
            (/\ vulnerabilities[a].service = vulnerabilities[b].service
             /\ vulnerabilities[a].vulnerability = vulnerabilities[b].vulnerability
             /\ vulnerabilities[a].plugin_id = vulnerabilities[b].plugin_id)
                => vulnerabilities[a].category = vulnerabilities[b].category

\* two records that agree in the triple and differ in ip, port and description
C4_Witness ==
    /\ pc = "parsed"
    /\ Len(vulnerabilities) = 2
    /\ vulnerabilities[1].service = vulnerabilities[2].service
    /\ vulnerabilities[1].vulnerability = vulnerabilities[2].vulnerability
    /\ vulnerabilities[1].plugin_id = vulnerabilities[2].plugin_id
    /\ vulnerabilities[1].description # vulnerabilities[2].description
    /\ vulnerabilities[1].ip # vulnerabilities[2].ip
    /\ vulnerabilities[1].category = vulnerabilities[2].category

\* C5: the finding of a turn is verified by the scanner the table binds to
\* its category, and by the General scanner (VulnerabilityScanner) when the
\* table has no such key; the finding of every turn is the next of the list,
\* so that none is skipped.
C5_DispatchByCategory ==
    /\ i >= 1 =>
          LET category == vulnerabilities[i].category
          IN  /\ last.vuln = vulnerabilities[i]
              /\ category \in DOMAIN scanners => last.scanner = scanners[category]
              /\ category \notin DOMAIN scanners => last.scanner = "VulnerabilityScanner"
              /\ category = <<"A","p","a","c","h","e">> => last.scanner = "ApacheVulnScanner"
    /\ LoopReported => i = Len(vulnerabilities)

\* a finding of category SNMP, which the table does not hold, was verified by
\* the General scanner and recorded
C5_Witness ==
    /\ TurnRecorded
    /\ last.vuln.category = <<"S","N","M","P">>
    /\ last.scanner = "VulnerabilityScanner"
    /\ last.out.exc = "none"

\* C6 as stated: a finding is recorded as "Manual Check Required" only if its
\* external-tool invocation failed or timed out.
C6_ManualCheckOnlyOnToolFailure ==
    (TurnRecorded /\ results[i][1] = "Manual Check Required")
        => last.out.run \in FailedRuns

\* C6 amended: a finding is recorded as "Manual Check Required" only if its
\* external-tool invocation failed or timed out, or an exception left
\* verify() (the evidence folder could not be created, the tool's output file
\* could not be read, manual_steps.txt could not be written) and main's
\* handler recorded it.
C6_ManualCheckOnlyOnFailureOrException ==
    (TurnRecorded /\ results[i][1] = "Manual Check Required")
        => (last.out.run \in FailedRuns \/ last.out.exc # "none")

\* the evidence folder could not be created, no command was run, and main
\* recorded "Manual Check Required"
C6_Witness ==
    /\ TurnRecorded
    /\ results[i][1] = "Manual Check Required"
    /\ last.out.exc = "ScannerError"
    /\ last.out.run = "none"

\* C7 as stated: in every run mode every status handed to generate_report is
\* "Verified", "False Positive" or "Manual Check Required".
C7_ReportedStatuses ==
    report.called => \A k \in 1..Len(report.results) : report.results[k][1] \in Statuses

\* C7 amended: without --dry-run (with or without --category) every status
\* handed to generate_report is "Verified", "False Positive" or "Manual Check
\* Required"; with --dry-run every status handed to it is
\* "Not Verified (Dry Run)".
C7_ReportedStatusesByMode ==
    report.called =>
        \A k \in 1..Len(report.results) :
            IF args.dry_run
            THEN report.results[k][1] = "Not Verified (Dry Run)"
            ELSE report.results[k][1] \in Statuses

\* a dry run with --category reported its one finding
C7_Witness ==
    /\ report.called
    /\ args.dry_run
    /\ args.category # None
    /\ Len(report.vulnerabilities) = 1
    /\ report.results[1][1] = "Not Verified (Dry Run)"

\* C8: for each of the eight verifiers, when the external-tool invocation
\* fails, verify() catches the failure, writes manual_steps.txt into the
\* evidence folder and returns ("Manual Check Required", folder); no exception
\* reaches the loop of main.
C8_FailureHandledInsideVerify ==
    (i >= 1 /\ last.scanner \in SourceScanners /\ last.out.run \in FailedRuns)
        => /\ last.out.exc = "none"
           /\ last.out.note = "written"
           /\ last.out.status = "Manual Check Required"
           /\ Len(results) = i
           /\ results[i] = <<"Manual Check Required", last.out.poc_path>>

\* C9: a row named "Apache Default Welcome Page" with plugin id "11219" is
\* categorized as Apache, and an Apache finding whose plugin id is "11219" or
\* "73346" gets status "Verified" once its scan has run and its output was read.
C9_KnownApachePluginVerified ==
    /\ \A k \in 1..Len(vulnerabilities) :
          (vulnerabilities[k].vulnerability = N_APACHE_DEFAULT
             /\ vulnerabilities[k].plugin_id = P_11219)
                => vulnerabilities[k].category = <<"A","p","a","c","h","e">>
    /\ (/\ TurnRecorded
        /\ last.scanner = "ApacheVulnScanner"
        /\ last.vuln.plugin_id \in {P_11219, <<"7","3","3","4","6">>}
        /\ last.out.read = "ok")
          => results[i][1] = "Verified"

----------------------------------------------------------------------------
(* Rows and layouts *)

\* the row holds a value, None or not, for every column of the header
RowWhole(row) == \A c \in DOMAIN row : row[c] # None

\* C13: no single row aborts parse_nessus_csv: whatever rows the file holds,
\* also rows too short to hold their service or plugin id, the call returns,
\* and it returns a record for every row that is complete and holds all its
\* fields.
C13_UnparseableRowSkipped ==
    /\ pc # "parse_raised"
    /\ pc = "parsed" =>
          LET m == get_field_mapping(csv_file.fieldnames)
          IN  \A k \in 1..Len(csv_file.rows) :
                (RowComplete(csv_file.rows[k], m) /\ RowWhole(csv_file.rows[k]))
                  => \E j \in 1..Len(vulnerabilities) :
                        /\ vulnerabilities[j].ip = csv_file.rows[k][m.ip]
                        /\ vulnerabilities[j].port = csv_file.rows[k][m.port]
                        /\ vulnerabilities[j].vulnerability = csv_file.rows[k][m.vulnerability]

\* the columns of a layout
Columns(l) == {l[f] : f \in DOMAIN l}

\* C17: a file in the default layout (Host, Port, Service, Vulnerability,
\* Plugin ID, Description, Solution) is read with the default mapping:
\* get_field_mapping returns the default mapping for its header, and every
\* row of it with non-empty Host, Port and Vulnerability becomes a record;
\* a header that is one of the two recognized header sets does not get the
\* default mapping.
C17_DefaultLayoutRead ==
    pc = "parsed" =>
        /\ csv_file.fieldnames = Columns(DefaultMapping)
              => /\ get_field_mapping(csv_file.fieldnames) = DefaultMapping
                 /\ Len(vulnerabilities) =
                       Cardinality({k \in 1..Len(csv_file.rows) :
                                      RowComplete(csv_file.rows[k], DefaultMapping)})
        /\ csv_file.fieldnames \in {Columns(NessusMapping), Columns(Report4Mapping)}
              => get_field_mapping(csv_file.fieldnames) # DefaultMapping

----------------------------------------------------------------------------
(* The evidence tree *)

\* the latest turn of the loop got its evidence folder
FolderMade == i >= 1 /\ last.out.dir # NoPath

\* C11: every finding that gets an evidence folder has in that folder the
\* metadata file (vulnerability_info.json) create_poc_folder wrote, and the
\* record read back from the file equals the finding field by field.
C11_MetadataRoundTrip ==
    FolderMade =>
        /\ last.out.dir \in DOMAIN disk
        /\ "vulnerability_info.json" \in DOMAIN disk[last.out.dir]
        /\ disk[last.out.dir]["vulnerability_info.json"] = last.vuln

\* the name setup_directories gives the directory of a status, whether the
\* status is written as the verifiers write it or as setup_directories does
StatusDirName(status) ==
    CASE status = "Verified" -> "verified"
      [] status = "False Positive" -> "false_positive"
      [] OTHER -> status

\* C14: the evidence path a verifier returns with a finding's result lies
\* under the directory named for the finding's final status and, below it,
\* under the directory of its category (lowercased), and that status
\* directory is one of those setup_directories created (names compared
\* without regard to case and to " " against "_").
C14_PathUnderStatusAndCategory ==
    (TurnRecorded /\ last.out.exc = "none") =>
        /\ StatusDirName(results[i][2].status_dir) = StatusDirName(results[i][1])
        /\ results[i][2].category_dir = Lower(last.vuln.category)
        /\ StatusDirName(results[i][2].status_dir) \in SetupStatuses

\* C15: the command line every verifier builds targets the finding's own ip
\* and, when the verifier passes a port to its tool, the finding's own port:
\* the port argument of the command equals the port field of the record.
C15_CommandTargetsFinding ==
    (i >= 1 /\ last.out.cmd # NoCmd) =>
        /\ last.out.cmd.ip = last.vuln.ip
        /\ last.out.cmd.port # <<>> => last.out.cmd.port = last.vuln.port

----------------------------------------------------------------------------
(* The status after a successful invocation *)

\* C26: when the external tool exited with 0 and verify() returned, the
\* status is decided by the substring search over the (lowercased) output of
\* that invocation alone: "Verified" exactly when one of the verifier's
\* success substrings occurs in it, otherwise "False Positive".  For the SSL
\* verifier the substrings are those of the group whose identifier the
\* finding's plugin id holds, and a plugin id that holds none of the five
\* identifiers is never Verified; the folder picked from the plugin-id list
\* has no part in it.
C26_StatusBySubstringSearch ==
    (i >= 1 /\ last.scanner \in SourceScanners /\ last.out.exc = "none" /\ last.out.run = "ok") =>
        LET output == Lower(ToolOutput(last.out.cmd.tool, last.out.hit))
            plugin_id == last.vuln.plugin_id
            Has(sub) == Contains(output, sub)
            found ==
                CASE last.scanner = "SSLVulnScanner" ->
                       \/ /\ \/ Contains(plugin_id, <<"2","6","9","2","8">>)
                             \/ Contains(plugin_id, <<"4","2","8","7","3">>)
                          /\ Has(<<"r","c","4">>) \/ Has(<<"m","d","5">>) \/ Has(<<"s","h","a","1">>)
                       \/ /\ Contains(plugin_id, <<"1","5","9","0","1">>)
                          /\ Has(<<"s","s","l","v","3">>)
                       \/ /\ Contains(plugin_id, <<"8","8","8","8","1">>)
                          /\ Has(<<"t","l","s","v","1",".","0">>)
                       \/ /\ Contains(plugin_id, <<"5","7","5","8","2">>)
                          /\ Has(<<"s","e","l","f","-","s","i","g","n","e","d">>)
                  [] last.scanner = "TelnetVulnScanner" ->
                       Has(<<"c","o","n","n","e","c","t","e","d">>) \/ Has(<<"l","o","g","i","n">>)
                  [] last.scanner = "IKEVulnScanner" ->
                       Has(<<"a","g","g","r","e","s","s","i","v","e">>) \/ Has(<<"w","e","a","k">>)
                  [] OTHER ->
                       \/ Has(Lower(last.vuln.vulnerability))
                       \/ Has(<<"v","u","l","n","e","r","a","b","l","e">>)
        IN  /\ last.out.status = IF found THEN "Verified" ELSE "False Positive"
            /\ (last.scanner = "SSLVulnScanner"
                  /\ \A id \in {<<"2","6","9","2","8">>, <<"4","2","8","7","3">>,
                                 <<"1","5","9","0","1">>, <<"8","8","8","8","1">>,
                                 <<"5","7","5","8","2">>} : ~Contains(plugin_id, id))
                 => last.out.status = "False Positive"

\* the SSL verifier ran sslscan with success on a finding whose plugin id is
\* in the list that picks the "Verified" folder, found none of the group's
\* substrings in the output and returned False Positive
C26_Witness ==
    /\ i >= 1
    /\ last.scanner = "SSLVulnScanner"
    /\ last.vuln.plugin_id = <<"2","6","9","2","8">>
    /\ last.out.exc = "none"
    /\ last.out.run = "ok"
    /\ last.out.dir.status_dir = "Verified"
    /\ last.out.status = "False Positive"

----------------------------------------------------------------------------
(* One finding at a time *)

\* C19: each finding is passed to exactly one verifier exactly once, in input
\* order, and verifying one finding changes neither the status nor the
\* evidence files recorded for any other finding of the batch, including
\* another finding with the same vulnerability name, ip and port: a turn of
\* the loop takes the next finding, appends one result, and leaves every
\* earlier result and the files of its evidence folder as they were.
C19_OtherFindingsUntouched ==
    [][/\ i' # i =>
            /\ i' = i + 1
            /\ last'.vuln = vulnerabilities[i']
            /\ last'.scanner = SelectScanner(last'.vuln.category)
            /\ Len(results') = i'
       /\ \A k \in 1..Len(results) :
            /\ k <= Len(results')
            /\ results'[k] = results[k]
            /\ results[k][2] \in DOMAIN disk =>
                 disk'[results[k][2]] = disk[results[k][2]]]_vars

----------------------------------------------------------------------------
(* The dry run *)

\* the records of the export that pass the category filter of the command line
KeptRecords ==
    LET parsed == parse_nessus_csv(csv_file).vulnerabilities
    IN  {k \in 1..Len(parsed) :
            Truthy(args.category) => Lower(parsed[k].category) = Lower(args.category)}

\* C20: with --dry-run no verifier's verify() is called and no per-finding
\* tool command is run (the loop makes no turn, and no evidence folder and no
\* tool output appear in the output tree); the report gets one row per parsed
\* and category-filtered record, each with the dry-run status, and once the
\* report is written the process exits with status 0.
C20_DryRunReportsOnly ==
    args.dry_run =>
        /\ i = 0
        /\ results = <<>>
        /\ last = NoTurn
        /\ \A p \in DOMAIN disk : p.folder = <<>> /\ disk[p] = NoFiles
        /\ pc # "verify"
        /\ report.called =>
             /\ Len(report.rows) = Cardinality(KeptRecords)
             /\ \A k \in 1..Len(report.rows) :
                  /\ report.rows[k].status = "Not Verified (Dry Run)"
                  /\ \E j \in KeptRecords :
                       LET rec == parse_nessus_csv(csv_file).vulnerabilities[j]
                       IN  /\ report.rows[k].ip = rec.ip
                           /\ report.rows[k].port = rec.port
                           /\ report.rows[k].vulnerability = rec.vulnerability
             /\ report.saved => pc = "exit0"
        /\ pc = "exit0" => report.called /\ report.saved

\* a dry run over two parsed records, of which the category filter kept one,
\* wrote its report and exited with status 0
C20_Witness ==
    /\ args.dry_run
    /\ Truthy(args.category)
    /\ pc = "exit0"
    /\ Len(parse_nessus_csv(csv_file).vulnerabilities) = 2
    /\ Len(report.rows) = 1
    /\ report.saved

----------------------------------------------------------------------------
(* The category filter *)

\* the k-th of the records that pass the filter, counted in the order of the export
NthKept(kept, k) ==
    CHOOSE j \in kept : Cardinality({m \in kept : m < j}) = k - 1

\* C21: with --category NAME exactly the parsed records whose category equals
\* NAME without regard to case are verified and reported, in their original
\* relative order, and without --category all parsed records are: the step
\* that ends the parse leaves those records in that order as the findings
\* main works on, no later step changes them, each turn of the loop verifies
\* the next of them, and the report is written from all of them.
C21_CategoryFilter ==
    [][/\ (pc = "parse" /\ pc' \in {"dry_run", "verify"}) =>
            LET parsed == parse_nessus_csv(csv_file).vulnerabilities
                kept == KeptRecords
            IN  /\ Len(vulnerabilities') = Cardinality(kept)
                /\ \A k \in 1..Len(vulnerabilities') :
                     vulnerabilities'[k] = parsed[NthKept(kept, k)]
                /\ ~Truthy(args.category) => vulnerabilities' = parsed
       /\ pc \in {"dry_run", "verify"} => vulnerabilities' = vulnerabilities
       /\ i' # i => i' = i + 1 /\ last'.vuln = vulnerabilities[i']
       /\ (report'.called /\ ~report.called) =>
            /\ report'.vulnerabilities = vulnerabilities
            /\ Len(report'.rows) = Len(vulnerabilities)
            /\ ~args.dry_run => i = Len(vulnerabilities)]_vars

\* of two parsed records, the first of another category, --category apache
\* kept the Apache finding alone, which was verified and reported
C21_Witness ==
    /\ Truthy(args.category)
    /\ ~args.dry_run
    /\ report.called
    /\ Len(parse_nessus_csv(csv_file).vulnerabilities) = 2
    /\ parse_nessus_csv(csv_file).vulnerabilities[1].category # <<"A","p","a","c","h","e">>
    /\ Len(report.rows) = 1
    /\ i = 1
    /\ last.vuln.category = <<"A","p","a","c","h","e">>

----------------------------------------------------------------------------
(* Skipping the installation *)

\* C22: when the installation of the tools is skipped, because the variable
\* SKIP_TOOL_INSTALL holds "true", "1" or "t" in any case when the program
\* starts or because --skip-tools is given, the run downloads no tool, runs
\* no installer and no check command and does not open tool_config.json, and
\* it goes on to the parse and the verification: it ends with status 1 only
\* when the validation, the making of the directories, the parse or the
\* saving of the report failed.
C22_SkippedInstallation ==
    (pc # "write" /\ (host.argv.skip_tools
                       \/ Lower(IF host.SKIP_TOOL_INSTALL = None THEN <<>>
                                ELSE host.SKIP_TOOL_INSTALL)
                             \in {<<"t","r","u","e">>, <<"1">>, <<"t">>})) =>
        /\ ~tools.config_opened
        /\ tools.commands = {}
        /\ ~tools.raised
        /\ host.argv.skip_tools => ~tools.called
        /\ pc = "exit1" =>
             \/ ValidationFails
             \/ ~host.makedirs
             \/ ParseFails
             \/ (report.called /\ ~report.saved)

\* with SKIP_TOOL_INSTALL=True and no tool_config.json, install_tools was
\* called, and the run verified its findings and wrote its report
C22_Witness ==
    /\ host.SKIP_TOOL_INSTALL = <<"T","r","u","e">>
    /\ ~host.argv.skip_tools
    /\ host.tool_config = "missing"
    /\ tools.called
    /\ pc = "exit0"
    /\ i >= 1
    /\ report.saved

----------------------------------------------------------------------------
(* The report *)

\* C16: generate_report writes one data row per record, in the order of the
\* records, each row with its record's ip, port, service, name and plugin id
\* and with that record's own status and evidence path; the status cell is
\* filled green (00FF00) for Verified, red (FF0000) for False Positive and
\* yellow (FFFF00) for Manual Check Required and for any other status.
C16_OneRowPerRecord ==
    report.called =>
        /\ Len(report.rows) = Len(report.vulnerabilities)
        /\ Len(report.rows) = Len(vulnerabilities)
        /\ \A k \in 1..Len(report.rows) :
              LET row == report.rows[k]
              IN  /\ row.ip = vulnerabilities[k].ip
                  /\ row.port = vulnerabilities[k].port
                  /\ row.service = vulnerabilities[k].service
                  /\ row.vulnerability = vulnerabilities[k].vulnerability
                  /\ row.plugin_id = vulnerabilities[k].plugin_id
                  /\ row.status = report.results[k][1]
                  /\ row.poc_path = report.results[k][2]
                  /\ ~args.dry_run => <<row.status, row.poc_path>> = results[k]
                  /\ row.fill = CASE row.status = "Verified" -> "00FF00"
                                   [] row.status = "False Positive" -> "FF0000"
                                   [] OTHER -> "FFFF00"

\* a report of two findings, the first verified, the second not
C16_Witness ==
    /\ report.called
    /\ Len(report.rows) = 2
    /\ report.rows[1].status = "Verified"
    /\ report.rows[1].fill = "00FF00"
    /\ report.rows[2].status = "False Positive"
    /\ report.rows[2].fill = "FF0000"
    /\ report.rows[1].vulnerability # report.rows[2].vulnerability

----------------------------------------------------------------------------
(* IP-and-Subnet-Masking-Tool.py *)

\* the literal "xx"
XX == <<"x","x">>

DOT == <<".">>

SLASH == <<"/">>

\* a plausible slip: the fourth octet is masked instead of the third
mask_ip_address_wrong_octet(s) ==
    IF Contains(s, SLASH)
    THEN LET parts  == SplitOnce(s, "/")
             octets == Split(parts[1], ".")
         IN  IF Len(octets) = 4
             THEN octets[1] \o DOT \o XX \o DOT \o octets[3] \o DOT \o XX
                      \o SLASH \o parts[2]
             ELSE s
    ELSE LET octets == Split(s, ".")
         IN  IF Len(octets) = 4
             THEN octets[1] \o DOT \o XX \o DOT \o octets[3] \o DOT \o XX
             ELSE s

mask_ip_address(s) ==
    IF Contains(s, SLASH)
    THEN LET parts  == SplitOnce(s, "/")
             octets == Split(parts[1], ".")
         IN  IF Len(octets) = 4
             THEN octets[1] \o DOT \o XX \o DOT \o XX \o DOT \o octets[4]
                      \o SLASH \o parts[2]
             ELSE s
    ELSE LET octets == Split(s, ".")
         IN  IF Len(octets) = 4
             THEN octets[1] \o DOT \o XX \o DOT \o XX \o DOT \o octets[4]
             ELSE s

\* longest line typed character by character
MaxIpLen == 9

\* the characters lines are typed from
IpAlphabet == {"5", "7", ".", "/"}

IP_202 == <<"2","0","2",".","5","8",".","1","3","2",".","5","6">>

IP_202_24 == <<"2","0","2",".","5","8",".","1","3","2",".","5","6","/","2","4">>

MASKED_202 == <<"2","0","2",".","x","x",".","x","x",".","5","6">>

MASKED_202_24 == <<"2","0","2",".","x","x",".","x","x",".","5","6","/","2","4">>

\* the lines of the tool's documentation, and one that is no address
ExampleLines == {IP_202, IP_202_24, <<"l","o","c","a","l","h","o","s","t">>,
                 <<"1","0",".","0",".","0",".","0",".","1","/","8">>}

NoResult == <<"-">>

MainIdle ==
    /\ host = GoodHost
    /\ disk = NoDisk
    /\ tools = NoTools
    /\ csv_file = [fieldnames |-> {}, rows |-> <<>>]
    /\ args = NoArgs
    /\ pc = "idle"
    /\ vulnerabilities = <<>>
    /\ results = <<>>
    /\ i = 0
    /\ last = NoTurn
    /\ report = NoReport

InitMask ==
    /\ MainIdle
    /\ SplitIdle
    /\ RunIdle
    /\ DownloadIdle
    /\ ValidateIdle
    /\ ip_str = <<>>
    /\ masked = NoResult
    /\ mpc = "input"

\* one more character of the line read from scope.txt
TypeChar ==
    /\ mpc = "input"
    /\ Len(ip_str) < MaxIpLen
    /\ \E c \in IpAlphabet : ip_str' = Append(ip_str, c)
    /\ UNCHANGED <<masked, mpc, mainVars, splitter, runner, dl, validator>>

\* the line is one of the documented examples
ReadExample ==
    /\ mpc = "input"
    /\ ip_str = <<>>
    /\ \E e \in ExampleLines : ip_str' = e
    /\ UNCHANGED <<masked, mpc, mainVars, splitter, runner, dl, validator>>

\* process_file: masked = mask_ip_address(line) for a non-empty line
MaskLine ==
    /\ mpc = "input"
    /\ ip_str # <<>>
    /\ masked' = mask_ip_address(ip_str)
    /\ mpc' = "masked"
    /\ UNCHANGED <<ip_str, mainVars, splitter, runner, dl, validator>>

NextMask ==
    \/ TypeChar
    \/ ReadExample
    \/ MaskLine

SpecMask == InitMask /\ [][NextMask]_vars

----------------------------------------------------------------------------
(* C10 *)

\* positions of the dots of the address part (the part before the first "/")
AddrEnd(s) == IF FirstIndex(s, "/") = 0 THEN Len(s) ELSE FirstIndex(s, "/") - 1

DotPositions(s) == {k \in 1..AddrEnd(s) : s[k] = "."}

\* C10: mask_ip_address replaces exactly the second and third octet by "xx"
\* and keeps the first octet, the fourth octet and any "/suffix": the result
\* is the text before the first dot, ".xx.xx.", and the text after the third
\* dot up to the end of the line; the two documented examples come out as
\* documented; a line whose address part does not have exactly four
\* dot-separated fields (three dots) is returned unchanged.
C10_MaskMiddleOctets ==
    mpc = "masked" =>
        LET dots == DotPositions(ip_str)
        IN  /\ Cardinality(dots) # 3 => masked = ip_str
            /\ Cardinality(dots) = 3 =>
                 LET d1 == CHOOSE k \in dots : \A j \in dots : k <= j
                     d3 == CHOOSE k \in dots : \A j \in dots : k >= j
                 IN  masked = SubSeq(ip_str, 1, d1 - 1)
                              \o <<".","x","x",".","x","x",".">>
                              \o SubSeq(ip_str, d3 + 1, Len(ip_str))
            /\ ip_str = IP_202 => masked = MASKED_202
            /\ ip_str = IP_202_24 => masked = MASKED_202_24

\* a typed address with an empty suffix was masked and kept its slash
C10_Witness ==
    /\ mpc = "masked"
    /\ ip_str = <<"5","7",".","5",".","7",".","7","/">>
    /\ masked = <<"5","7",".","x","x",".","x","x",".","7","/">>

----------------------------------------------------------------------------
(* The scope splitter alone: main from split_targets to the end of the scans *)

InitSplit ==
    /\ MaskIdle
    /\ MainIdle
    /\ RunIdle
    /\ DownloadIdle
    /\ ValidateIdle
    /\ ScopeParsed

NextSplit ==
    \/ SplitTargets
    \/ \E t \in 1..Len(splitter.scans) : ScanStart(t)
    \/ \E t \in 1..Len(splitter.scans) : ScanExit(t)
    \/ ScanCompleted

SpecSplit == InitSplit /\ [][NextSplit]_vars

\* C18: for every scope file the target files split_targets produces have
\* pairwise distinct names, the scans launched from them have pairwise
\* distinct output base paths, and, however the concurrently running scans
\* interleave, no output file is written by two of them.
C18_DistinctOutputs ==
    splitter.pc \in {"scan", "completed"} =>
        LET tf == splitter.target_files
        IN  /\ \A a, b \in 1..Len(tf) : a # b => tf[a] # tf[b]
            /\ \A a, b \in 1..Len(tf) : a # b => output_base(tf[a]) # output_base(tf[b])
            /\ \A f \in DOMAIN splitter.writers : Cardinality(splitter.writers[f]) <= 1

\* the scan of scope_1.txt and the scan of subnet_1.txt run at the same time,
\* next to a second scope file
C18_Witness ==
    /\ splitter.pc = "scan"
    /\ Len(splitter.target_files) = 3
    /\ \E a, b \in 1..Len(splitter.scans) :
        /\ splitter.target_files[a] = TargetName(<<"s","c","o","p","e">>, 1)
        /\ splitter.target_files[b] = TargetName(<<"s","u","b","n","e","t">>, 1)
        /\ splitter.scans[a] = "running"
        /\ splitter.scans[b] = "running"
        /\ \A f \in NmapOutputs(output_base(splitter.target_files[a])) :
               splitter.writers[f] = {a}

\* C28: with positive ips_per_file and subnets_per_file the target files
\* partition the scope: every valid address of the scope file is a line of
\* exactly one scope_N.txt (once) and every valid subnet of exactly one
\* subnet_N.txt, a scope file has between 1 and ips_per_file lines, a subnet
\* file between 1 and subnets_per_file, and no file holds both kinds (stated
\* of the files as split_targets leaves them, before the scans start).
C28_TargetsPartitioned ==
    (splitter.pc = "scan" /\ \A t \in 1..Len(splitter.scans) : splitter.scans[t] = "new") =>
        LET files == splitter.files
            count == Len(splitter.target_files)
            scope_files == {f \in DOMAIN files :
                              \E n \in 1..count : f = TargetName(<<"s","c","o","p","e">>, n)}
            subnet_files == {f \in DOMAIN files :
                               \E n \in 1..count : f = TargetName(<<"s","u","b","n","e","t">>, n)}
            valid(l) == validate_ip(l)
            is_subnet(l) == \E k \in 1..Len(l) : l[k] = "/"
            entries == {l \in {SelectSeq(splitter.scope[k], LAMBDA c : c # " ") :
                                  k \in 1..Len(splitter.scope)} : l # <<>> /\ valid(l)}
            places(l) == UNION {{<<f, k>> : k \in {j \in 1..Len(files[f]) : files[f][j] = l}} :
                                   f \in DOMAIN files}
        IN  /\ splitter.config.ips_per_file > 0
            /\ splitter.config.subnets_per_file > 0
            /\ DOMAIN files = scope_files \cup subnet_files
            /\ DOMAIN files = {splitter.target_files[n] : n \in 1..count}
            /\ \A l \in entries :
                 /\ Cardinality(places(l)) = 1
                 /\ \A pl \in places(l) :
                        pl[1] \in (IF is_subnet(l) THEN subnet_files ELSE scope_files)
            /\ \A f \in DOMAIN files :
                 /\ Len(files[f]) >= 1
                 /\ \A k \in 1..Len(files[f]) :
                        /\ files[f][k] \in entries
                        /\ is_subnet(files[f][k]) <=> f \in subnet_files
            /\ \A f \in scope_files : Len(files[f]) <= splitter.config.ips_per_file
            /\ \A f \in subnet_files : Len(files[f]) <= splitter.config.subnets_per_file

\* a scope file of two addresses, a subnet and an entry that is none was
\* split, one address to a file, into two scope files and a subnet file
C28_Witness ==
    /\ splitter.pc = "scan"
    /\ splitter.config.ips_per_file = 1
    /\ Len(splitter.scope) > Len(splitter.ips) + Len(splitter.subnets)
    /\ \A t \in 1..Len(splitter.scans) : splitter.scans[t] = "new"
    /\ Len(splitter.ips) = 2
    /\ Len(splitter.subnets) = 1
    /\ Cardinality(DOMAIN splitter.files) = 3

\* C29: there is one scan for each target file and it is started at most
\* once; "Scanning completed" is reached only when every scan has ended
\* (nmap exited with 0 or not, or could not be started); and a scan that
\* cannot be started or exits non-zero changes no other scan: a step changes
\* one scan only, a scan that has ended stays as it is, and whatever became of
\* the others a scan not yet started can start and a running one can end.
C29_ScansIndependent ==
    [][/\ splitter'.pc \in {"scan", "completed"} =>
            Len(splitter'.scans) = Len(splitter'.target_files)
       /\ splitter'.pc = "completed" =>
            /\ \A t \in 1..Len(splitter'.scans) :
                   splitter'.scans[t] \in {"done", "failed", "error"}
            /\ splitter'.scans = splitter.scans
       /\ splitter.pc = "scan" =>
            \A t \in 1..Len(splitter.scans) :
                /\ splitter'.scans[t] # splitter.scans[t] =>
                     /\ <<splitter.scans[t], splitter'.scans[t]>> \in
                            {<<"new", "running">>, <<"new", "error">>,
                             <<"running", "done">>, <<"running", "failed">>}
                     /\ \A u \in 1..Len(splitter.scans) :
                            u # t => splitter'.scans[u] = splitter.scans[u]
                /\ splitter.scans[t] = "new" => ENABLED ScanStart(t)
                /\ splitter.scans[t] = "running" => ENABLED ScanExit(t)]_vars

\* the batch of three scans is over: one could not be started, one exited
\* non-zero, and one ran to its end all the same
C29_Witness ==
    /\ splitter.pc = "completed"
    /\ Len(splitter.scans) = 3
    /\ \E a, b, c \in 1..3 :
        /\ splitter.scans[a] = "error"
        /\ splitter.scans[b] = "failed"
        /\ splitter.scans[c] = "done"

----------------------------------------------------------------------------
(* One call of _run_command alone *)

InitOneRun ==
    /\ MaskIdle
    /\ MainIdle
    /\ SplitIdle
    /\ DownloadIdle
    /\ ValidateIdle
    /\ InitRun

NextRun ==
    \/ GetToolPath
    \/ CheckScript
    \/ RunTool
    \/ HandleScannerError

SpecRun == InitOneRun /\ [][NextRun]_vars

\* C25: during one verify() call the verifier launches exactly one
\* invocation of its tool for the finding, and after that invocation failed
\* or timed out it is not launched again and no further process is started:
\* the log of the processes of the call never holds two launches of the
\* command, a launch is the last process of the log, and a call holds exactly
\* one unless an exception kept it from reaching subprocess.run.
C25_OneInvocation ==
    LET launches == {k \in 1..Len(runner.log) : runner.log[k] = "tool"}
    IN  /\ Cardinality(launches) <= 1
        /\ \A k \in launches : k = Len(runner.log)
        /\ (runner.pc \in {"returned", "raised", "manual"} /\ runner.launched)
              => Cardinality(launches) = 1
        /\ (runner.pc \in {"returned", "raised", "manual"} /\ runner.result # "nostart")
              => runner.launched
        /\ runner.pc \in {"raised", "manual"} => runner.result \notin {"ok", "none"}
        /\ runner.pc = "returned" => runner.result = "ok"

\* an nmap command timed out after the two lookups and the script check, and
\* the verifier wrote its manual steps
C25_Witness ==
    /\ runner.pc = "manual"
    /\ runner.tool = "nmap"
    /\ runner.result = "timeout"
    /\ runner.log = <<"which", "which", "script-help", "tool">>

----------------------------------------------------------------------------
(* One call of download_file alone *)

InitOneDownload ==
    /\ MaskIdle
    /\ MainIdle
    /\ SplitIdle
    /\ RunIdle
    /\ InitDownload
    /\ ValidateIdle

NextDownload ==
    \/ NextAttempt
    \/ DownloadOk
    \/ DownloadFailed
    \/ WriteFailed

SpecDownload == InitOneDownload /\ [][NextDownload]_vars

\* the call is over
DownloadOver == dl.pc \in {"returned", "ScannerError", "OSError"}

\* every attempt made so far failed
AllFailed == \A k \in 1..Len(dl.outcomes) : dl.outcomes[k] # "ok"

\* what the claim and its amendment share: at most `retries` attempts, none
\* after a successful one, and a wait of 2*k seconds after the k-th failed
\* attempt when another attempt follows, none after the last
AttemptsAndWaits ==
    /\ Len(dl.outcomes) <= IF dl.retries > 0 THEN dl.retries ELSE 0
    /\ \A k \in 1..Len(dl.outcomes) : dl.outcomes[k] = "ok" => k = Len(dl.outcomes)
    /\ dl.downloaded <=> ~AllFailed
    /\ \A k \in 1..Len(dl.sleeps) : dl.sleeps[k] = 2 * k
    /\ Len(dl.sleeps) <= Len(dl.outcomes)
    /\ dl.pc \in {"loop", "request"} => Len(dl.sleeps) = Len(dl.outcomes)
    /\ DownloadOver =>
          Len(dl.sleeps) = IF Len(dl.outcomes) = 0 THEN 0 ELSE Len(dl.outcomes) - 1

----------------------------------------------------------------------------
(* One call of validate_with_single_credentials alone *)

InitOneValidation ==
    /\ MaskIdle
    /\ MainIdle
    /\ SplitIdle
    /\ RunIdle
    /\ DownloadIdle
    /\ InitValidate

NextValidate ==
    \/ ValidateLinux
    \/ ValidateWindows
    \/ ValidateOthers

SpecValidate == InitOneValidation /\ [][NextValidate]_vars

====
